---------------------------- MODULE Spec2Model ----------------------------
(***************************************************************************)
(* A model of the Flint static site generator (Staticpage-Generator-HTMX). *)
(*                                                                         *)
(* Text is modelled as a sequence of atoms.  An atom is an opaque piece of *)
(* text: the separators "/", ".", "\\", "-", " " are one character each, a *)
(* word such as "index", "md" or "blog" stands for that run of letters.    *)
(* No word atom contains a separator, so every test the source makes on    *)
(* characters (endsWith('/index'), the last '.', a run of characters       *)
(* outside [a-z0-9]) has the same answer on atoms.                         *)
(*                                                                         *)
(* The module holds several specifications over one set of variables, one  *)
(* per part of the program: SpecPath (output-path mapping), SpecSlug (label *)
(* slugs), SpecTpl (processTemplate), SpecReg (TemplateRegistry), SpecMeta *)
(* (parsePageMetadata), SpecBuild and SpecSite (SiteBuilder.build), SpecHier *)
(* (the page hierarchy), SpecBlocks (raw HTML blocks).  A specification    *)
(* leaves the variables of the other parts idle.                           *)
(***************************************************************************)
EXTENDS Integers, Sequences, FiniteSets, TLC

VARIABLES
    relPath,     \* SpecPath: ContentFile.relativePath handed to getOutputPath
    outPath,     \* SpecPath: the string getOutputPath returned
    outAgain,    \* SpecPath: getOutputPath of the stripped outPath
    pageUrl,     \* SpecPath: the string getUrlPath returned
    pathPc       \* SpecPath: "start", "done" after the call, "again"

VARIABLES
    slugText,    \* SpecSlug: the label text
    slugClient,  \* SpecSlug: labelSlug(text), the browser-side slug
    slugMeta,    \* SpecSlug: generateSlug(text), page-metadata.ts
    slugBuild,   \* SpecSlug: generateLabelSlug(text), the slug the build uses
    slugPc       \* SpecSlug: "start" before the calls, "done" after them

VARIABLES
    tplSegs,     \* SpecTpl: the template, as the segments it was written from
    tplCtx,      \* SpecTpl: the TemplateContext
    tplText,     \* SpecTpl: processTemplate's `result` (the template at first)
    tplPc        \* SpecTpl: "start", "conds" (after step 1), "done"

VARIABLES
    templates,   \* SpecReg: TemplateRegistry.templates, a Map in insertion order
    regCalls,    \* SpecReg: the register calls made so far, oldest first
    regCtx,      \* SpecReg: the context the last render was given
    rendered     \* SpecReg: what the last render call did

VARIABLES
    contentFiles,  \* SpecBuild: scanContent's result, each file with its header
    navigation,    \* SpecBuild: build's `navigation`
    childrenMap,   \* SpecBuild: build's `childrenMap`
    siteLabels,    \* SpecBuild: build's `siteLabels`
    fileIdx,       \* SpecBuild: position of the per-file loop
    pageIndex,     \* SpecBuild: build's `pageIndex`
    dist,          \* SpecBuild: the files under outputDir, path and content
    buildError,    \* SpecBuild: the error build rejected with, if it did
    buildPc        \* SpecBuild: "start", "files", "labels", "done", "failed"

VARIABLES
    hierPages,     \* SpecHier: the flat page records given to the hierarchy build
    hierChildren,  \* SpecHier: the children attached so far, a Map by parent
    hierIdx,       \* SpecHier: the next page to attach
    hierResult,    \* SpecHier: what the build returned or threw
    hierPc         \* SpecHier: "start", "attach", "done"

VARIABLES
    blkBody,     \* SpecBlocks: the document body, line by line
    blkMasked,   \* SpecBlocks: the body with the fenced blocks masked
    blkTable,    \* SpecBlocks: the block table, a Map by placeholder
    blkHtml,     \* SpecBlocks: the compiled, then the restored HTML
    blkVia,      \* SpecBlocks: whether the body was compiled before restoring
    blkPc        \* SpecBlocks: "start", "protected", "compiled", "restored"

VARIABLES
    metaData,    \* SpecMeta: the header data parsePageMetadata is given
    metaResult,  \* SpecMeta: the PageMetadata returned, or the error thrown
    metaPc       \* SpecMeta: "start" before the call, "done" after it

VARIABLES
    uriTitle,     \* SpecUri: generateShortUri's title
    uriExisting,  \* SpecUri: its existingUris argument, absent or a Set
    uriBase,      \* SpecUri: baseSlug
    uriCounter,   \* SpecUri: counter
    uriCandidate, \* SpecUri: candidate
    uriResult,    \* SpecUri: the string returned
    uriPc         \* SpecUri: "start", "loop" at the while test, "done"

uriVars ==
    <<uriTitle, uriExisting, uriBase, uriCounter, uriCandidate, uriResult,
      uriPc>>

VARIABLES
    seoPages,     \* SpecSeo: generateSitemap's pages, PageIndexEntry records
    seoSiteUrl,   \* SpecSeo: its siteUrl
    seoBasePath,  \* SpecSeo: its basePath
    seoXml,       \* SpecSeo: the string returned
    seoPc         \* SpecSeo: "start" before the call, "done" after it

seoVars == <<seoPages, seoSiteUrl, seoBasePath, seoXml, seoPc>>

VARIABLES
    navItemFile,  \* SpecNav: the root page a navigation item was made from
    navFile,      \* SpecNav: the file being rendered (file.relativePath)
    navHref,      \* SpecNav: the item's href
    navActive,    \* SpecNav: the item's active flag on that page
    navPc         \* SpecNav: "start" before the item is marked, "done" after

navVars == <<navItemFile, navFile, navHref, navActive, navPc>>

VARIABLES
    cliServed,       \* SpecClient: the page index the site serves
    pageIndexCache,  \* SpecClient: the bundle's pageIndexCache, null at load
    cliCalls,        \* SpecClient: handleLabelClick calls waiting on a fetch
    cliRequests,     \* SpecClient: fetches of page-index.json issued so far
    cliClicks,       \* SpecClient: label clicks handled so far
    cliLast,         \* SpecClient: the last handleLabelClick call that returned
    cliLocation      \* SpecClient: window.location.href, once assigned

cliVars ==
    <<cliServed, pageIndexCache, cliCalls, cliRequests, cliClicks, cliLast,
      cliLocation>>

pathVars == <<relPath, outPath, outAgain, pageUrl, pathPc>>

metaVars == <<metaData, metaResult, metaPc>>

blkVars == <<blkBody, blkMasked, blkTable, blkHtml, blkVia, blkPc>>

hierVars == <<hierPages, hierChildren, hierIdx, hierResult, hierPc>>

buildVars ==
    <<contentFiles, navigation, childrenMap, siteLabels, fileIdx, pageIndex,
      dist, buildError, buildPc>>

tplVars == <<tplSegs, tplCtx, tplText, tplPc>>

regVars == <<templates, regCalls, regCtx, rendered>>

slugVars == <<slugText, slugClient, slugMeta, slugBuild, slugPc>>

vars ==
    <<pathVars, slugVars, tplVars, regVars, buildVars, hierVars, blkVars,
      metaVars, uriVars, seoVars, navVars, cliVars>>

----------------------------------------------------------------------------
(* Generic helpers on sequences of atoms                                   *)

Max(a, b) == IF a >= b THEN a ELSE b

Min(a, b) == IF a <= b THEN a ELSE b

\* String.prototype.endsWith
EndsWith(s, suf) ==
    /\ Len(s) >= Len(suf)
    /\ SubSeq(s, Len(s) - Len(suf) + 1, Len(s)) = suf

\* String.prototype.startsWith
StartsWith(s, pre) ==
    /\ Len(s) >= Len(pre)
    /\ SubSeq(s, 1, Len(pre)) = pre

\* All sequences over S of length 0..n
SeqsUpTo(S, n) == UNION {[1..k -> S] : k \in 0..n}

\* s.replace(/\\/g, '/')
ReplaceBackslashes(s) == [i \in 1..Len(s) |-> IF s[i] = "\\" THEN "/" ELSE s[i]]

\* s.slice(0, -n) for n >= 0.  JavaScript reads -0 as 0, so slice(0, -0) is
\* slice(0, 0), the empty string.
SliceOffEnd(s, n) ==
    IF n = 0 THEN <<>> ELSE SubSeq(s, 1, Max(Len(s) - n, 0))

----------------------------------------------------------------------------
(* path.extname (Node, POSIX): the scan from the end of the path           *)

ExtInit(path) ==
    [startDot |-> 0, startPart |-> 1, end |-> 0, matchedSlash |-> TRUE,
     preDotState |-> 0, stop |-> FALSE]

\* One iteration of extname's loop at (1-based) position i.  startDot and end
\* use 0 for the source's -1; end is the position of the last character of
\* the basename (the source's end - 1).
ExtStep(path, i, st) ==
    IF path[i] = "/" THEN
        IF ~st.matchedSlash
        THEN [st EXCEPT !.startPart = i + 1, !.stop = TRUE]
        ELSE st
    ELSE
        LET s1 == IF st.end = 0
                  THEN [st EXCEPT !.matchedSlash = FALSE, !.end = i]
                  ELSE st
        IN  IF path[i] = "." THEN
                IF s1.startDot = 0 THEN [s1 EXCEPT !.startDot = i]
                ELSE IF s1.preDotState # 1 THEN [s1 EXCEPT !.preDotState = 1]
                ELSE s1
            ELSE IF s1.startDot # 0 THEN [s1 EXCEPT !.preDotState = -1]
            ELSE s1

RECURSIVE ExtScan(_, _, _)
ExtScan(path, i, st) ==
    IF i = 0 \/ st.stop THEN st
    ELSE ExtScan(path, i - 1, ExtStep(path, i, st))

extname(path) ==
    LET st == ExtScan(path, Len(path), ExtInit(path))
    IN  IF \/ st.startDot = 0
           \/ st.end = 0
           \/ st.preDotState = 0
           \/ /\ st.preDotState = 1
              /\ st.startDot = st.end
              /\ st.startDot = st.startPart + 1
        THEN <<>>
        ELSE SubSeq(path, st.startDot, st.end)

----------------------------------------------------------------------------
(* SiteBuilder.getOutputPath                                               *)

HtmlSuffix == <<".", "html">>

IndexHtml == <<"/", "index", ".", "html">>

getOutputPath(relativePath) ==
    LET ext  == extname(relativePath)
        base == ReplaceBackslashes(SliceOffEnd(relativePath, Len(ext)))
    IN  IF base = <<"index">> \/ EndsWith(base, <<"/", "index">>)
        THEN base \o HtmlSuffix
        ELSE base \o IndexHtml

----------------------------------------------------------------------------
(* SiteBuilder.scanContent: the relative paths a content directory yields. *)
(* Every entry is a file whose name ends with '.md', below zero or more    *)
(* directories.                                                            *)

MaxStemLen == 2

MaxDepth == 2

StemAtoms == {"a", "index", ".", "\\"}

DirNames == {"blog", "index"}

MdSuffix == <<".", "md">>

\* entry.name.endsWith('.md')
FileNames == {stem \o MdSuffix : stem \in SeqsUpTo(StemAtoms, MaxStemLen)}

RECURSIVE JoinDirs(_)
JoinDirs(dirs) ==
    IF dirs = <<>> THEN <<>>
    ELSE <<Head(dirs), "/">> \o JoinDirs(Tail(dirs))

\* relative(baseDir, fullPath) of every file scanContent keeps
ScannedPaths ==
    {JoinDirs(dirs) \o name :
        dirs \in SeqsUpTo(DirNames, MaxDepth), name \in FileNames}


----------------------------------------------------------------------------
(* Label slugs: labelSlug (browser), generateSlug (page-metadata.ts) and   *)
(* generateLabelSlug (page-index.ts).  A label text is a sequence of       *)
(* characters; the alphabet has a lower-case letter, two upper-case        *)
(* letters (one outside ASCII), a digit, a hyphen, a blank and a symbol.   *)

LabelChars == {"a", "B", "É", "1", "-", " ", "!"}

\* String.prototype.toLowerCase, one character
LowerChar(c) ==
    CASE c = "B" -> "b"
      [] c = "É" -> "é"
      [] OTHER -> c

toLowerCase(s) == [i \in 1..Len(s) |-> LowerChar(s[i])]

\* White space, as String.prototype.trim and \s see it
IsSpace(c) == c = " "

RECURSIVE TrimStart(_)
TrimStart(s) ==
    IF s # <<>> /\ IsSpace(Head(s)) THEN TrimStart(Tail(s)) ELSE s

RECURSIVE TrimEnd(_)
TrimEnd(s) ==
    IF s # <<>> /\ IsSpace(s[Len(s)])
    THEN TrimEnd(SubSeq(s, 1, Len(s) - 1))
    ELSE s

\* String.prototype.trim
trim(s) == TrimEnd(TrimStart(s))

\* The character class [a-z0-9]
IsLowerAlnum(c) == c \in {"a", "b", "1"}

\* s.replace(/[^a-z0-9]+/g, '-'): every maximal run of characters outside
\* [a-z0-9] becomes one hyphen.
RECURSIVE ReplaceNonAlnumRuns(_, _)
ReplaceNonAlnumRuns(s, inRun) ==
    IF s = <<>> THEN <<>>
    ELSE IF IsLowerAlnum(Head(s))
         THEN <<Head(s)>> \o ReplaceNonAlnumRuns(Tail(s), FALSE)
         ELSE (IF inRun THEN <<>> ELSE <<"-">>)
                  \o ReplaceNonAlnumRuns(Tail(s), TRUE)

RECURSIVE DropLeadingHyphens(_)
DropLeadingHyphens(s) ==
    IF s # <<>> /\ Head(s) = "-" THEN DropLeadingHyphens(Tail(s)) ELSE s

RECURSIVE DropTrailingHyphens(_)
DropTrailingHyphens(s) ==
    IF s # <<>> /\ s[Len(s)] = "-"
    THEN DropTrailingHyphens(SubSeq(s, 1, Len(s) - 1))
    ELSE s

\* s.replace(/^-+|-+$/g, '')
StripEdgeHyphens(s) == DropTrailingHyphens(DropLeadingHyphens(s))

\* labelSlug without its toLowerCase step (a mutant of labelSlug)
labelSlug_NoLowerCase(text) ==
    StripEdgeHyphens(ReplaceNonAlnumRuns(trim(text), FALSE))

\* labelSlug, the browser bundle's copy
labelSlug(text) ==
    StripEdgeHyphens(ReplaceNonAlnumRuns(trim(toLowerCase(text)), FALSE))

\* generateSlug, page-metadata.ts
generateSlug(text) ==
    StripEdgeHyphens(ReplaceNonAlnumRuns(trim(toLowerCase(text)), FALSE))

\* generateLabelSlug, page-index.ts: the words of the lower-cased text (its
\* maximal runs of [a-z0-9]) joined by single hyphens.
RECURSIVE AlnumWords(_, _)
AlnumWords(s, word) ==
    IF s = <<>> THEN (IF word = <<>> THEN <<>> ELSE <<word>>)
    ELSE IF IsLowerAlnum(Head(s))
         THEN AlnumWords(Tail(s), Append(word, Head(s)))
         ELSE (IF word = <<>> THEN <<>> ELSE <<word>>)
                  \o AlnumWords(Tail(s), <<>>)

RECURSIVE JoinWithHyphen(_)
JoinWithHyphen(words) ==
    IF words = <<>> THEN <<>>
    ELSE IF Len(words) = 1 THEN Head(words)
    ELSE Head(words) \o <<"-">> \o JoinWithHyphen(Tail(words))

generateLabelSlug(text) == JoinWithHyphen(AlnumWords(toLowerCase(text), <<>>))

MaxLabelLen == 3

LabelTexts == SeqsUpTo(LabelChars, MaxLabelLen)

----------------------------------------------------------------------------
(* The tag engine (tag-engine.ts).  A template is a sequence of tokens:    *)
(* "{{", "}}", "#if", "/if", a blank, tag names and pieces of plain text.  *)
(* A token other than the blank holds no white space, and only "{{" and    *)
(* "}}" hold braces.                                                       *)

OPEN == "{{"

CLOSE == "}}"

\* Concatenation of a sequence of sequences
RECURSIVE Flatten(_)
Flatten(ss) == IF ss = <<>> THEN <<>> ELSE Head(ss) \o Flatten(Tail(ss))

\* Navigation.render: never empty
NavigationRender(items) ==
    <<"<nav>">>
        \o Flatten([i \in 1..Len(items) |->
              <<"<a href=">> \o items[i].href
                  \o (IF items[i].active THEN <<" aria-current">> ELSE <<>>)
                  \o <<">">> \o items[i].label \o <<"</a>">>])
        \o <<"</nav>">>

\* LabelFooter.render (components/label-footer.ts): a <footer> holding a
\* link per label
LabelFooterRender(labels) ==
    <<"<footer>">>
        \o Flatten([i \in 1..Len(labels) |->
              <<"<a class=label-link>">> \o labels[i] \o <<"</a>">>])
        \o <<"</footer>">>

\* renderHead (templates/helpers.ts): doctype, <html> and <head>; the
\* description and keywords tags only when not empty
renderHead(ctx) ==
    <<"<!DOCTYPE html><html><head>">>
        \o (IF ctx.description # <<>>
            THEN <<"<meta name=description content=">> \o ctx.description \o <<">">>
            ELSE <<>>)
        \o (IF ctx.keywords # <<>>
            THEN <<"<meta name=keywords content=">> \o ctx.keywords \o <<">">>
            ELSE <<>>)
        \o <<"<meta name=base-path content=">> \o ctx.basePath \o <<">">>
        \o <<"<title>">> \o ctx.title \o <<"</title>">>
        \o <<"<link rel=stylesheet href=">> \o ctx.basePath
        \o <<"/assets/main.css", ">", "</head>">>

\* renderFootScripts (templates/helpers.ts)
renderFootScripts(basePath) ==
    <<"<script src=">> \o basePath \o <<"/assets/main.js", "></script>">>

WordsPerMinute == 200

\* html.replace(/<[^>]*>/g, ' ').split(/\s+/).filter(w => w.length > 0).length:
\* a token that opens with '<' is a tag, a blank is no word
IsWord(t) == t # " " /\ t \notin {"<p>", "</p>", "<b>", "</b>"}

WordCount(html) == Cardinality({i \in 1..Len(html) : IsWord(html[i])})

\* Math.round(x / y) for x >= 0, y > 0
RoundDiv(x, y) == (2 * x + y) \div (2 * y)

estimateReadingTime(html) == Max(1, RoundDiv(WordCount(html), WordsPerMinute))

\* formatDate: a date is modelled by its formatted text
formatDate(date) == <<"date:", date>>

CategoryPill(category) == <<"<span class=pill>">> \o category \o <<"</span>">>

LabelBadges(labels) ==
    Flatten([i \in 1..Len(labels) |->
        <<"<span class=badge>">> \o labels[i] \o <<"</span>">>])

BlogHeader(ctx) ==
    LET readTime == estimateReadingTime(ctx.content)
        byline ==
            (IF ctx.author # <<>>
             THEN <<"<span class=byline>">> \o ctx.author \o <<"</span>", " · ">>
             ELSE <<>>)
            \o (IF ctx.date # "null"
                THEN <<"<time>">> \o formatDate(ctx.date) \o <<"</time>", " · ">>
                ELSE <<>>)
            \o <<"<span class=reading-time>", ToString(readTime), " min read",
                 "</span>">>
    IN  <<"<header>">>
            \o (IF ctx.category # <<>> THEN CategoryPill(ctx.category) ELSE <<>>)
            \o <<"<h1>">> \o ctx.title \o <<"</h1>">>
            \o <<"<div>">> \o byline \o <<"</div>">>
            \o (IF ctx.labels # <<>>
                THEN <<"<div>">> \o LabelBadges(ctx.labels) \o <<"</div>">>
                ELSE <<>>)
            \o <<"</header>">>

\* An unknown tag left empty
UnknownTag_Empty(tagName) == <<>>

\* default: return `{{${tagName}}}`
UnknownTag(tagName) == <<OPEN>> \o tagName \o <<CLOSE>>

KnownTags ==
    {"head", "navigation", "content", "label-footer", "foot-scripts",
     "blog-header", "title", "description", "keywords", "author", "category",
     "basePath", "formatted-date", "reading-time", "category-pill",
     "label-badges"}

\* resolveTag: tagName is the text between the braces, a sequence of tokens
resolveTag(tagName, ctx) ==
    IF Len(tagName) = 1 /\ tagName[1] \in KnownTags THEN
        CASE tagName[1] = "head" -> renderHead(ctx)
          [] tagName[1] = "navigation" ->
                IF Len(ctx.navigation) > 0
                THEN NavigationRender(ctx.navigation) ELSE <<>>
          [] tagName[1] = "content" -> ctx.content
          [] tagName[1] = "label-footer" ->
                IF Len(ctx.siteLabels) > 0
                THEN LabelFooterRender(ctx.siteLabels) ELSE <<>>
          [] tagName[1] = "foot-scripts" -> renderFootScripts(ctx.basePath)
          [] tagName[1] = "blog-header" -> BlogHeader(ctx)
          [] tagName[1] = "title" -> ctx.title
          [] tagName[1] = "description" -> ctx.description
          [] tagName[1] = "keywords" -> ctx.keywords
          [] tagName[1] = "author" -> ctx.author
          [] tagName[1] = "category" -> ctx.category
          [] tagName[1] = "basePath" -> ctx.basePath
          [] tagName[1] = "formatted-date" ->
                IF ctx.date # "null" THEN formatDate(ctx.date) ELSE <<>>
          [] tagName[1] = "reading-time" ->
                <<ToString(estimateReadingTime(ctx.content)), " min read">>
          [] tagName[1] = "category-pill" ->
                IF ctx.category # <<>> THEN CategoryPill(ctx.category) ELSE <<>>
          [] tagName[1] = "label-badges" ->
                IF Len(ctx.labels) > 0 THEN LabelBadges(ctx.labels) ELSE <<>>
    ELSE UnknownTag(tagName)

\* Every condition taken as true
isTagTruthy_Always(tagName, ctx) == TRUE

isTagTruthy(tagName, ctx) == Len(resolveTag(tagName, ctx)) > 0

\* (\S+?)\}\} from position j: the position of the last token of the shortest
\* run of one or more non-blank tokens that "}}" follows, 0 when there is none
RECURSIVE NameEnd(_, _)
NameEnd(s, e) ==
    IF e + 1 > Len(s) \/ IsSpace(s[e]) THEN 0
    ELSE IF s[e + 1] = CLOSE THEN e
    ELSE NameEnd(s, e + 1)

\* \s+ from position j: the first position after the blanks
RECURSIVE SkipSpaces(_, _)
SkipSpaces(s, j) ==
    IF j <= Len(s) /\ IsSpace(s[j]) THEN SkipSpaces(s, j + 1) ELSE j

\* [\s\S]*?\{\{\/if\}\} from position p: the position of the first "{{/if}}"
\* at or after p, 0 when there is none
RECURSIVE EndIfAt(_, _)
EndIfAt(s, p) ==
    IF p + 2 > Len(s) THEN 0
    ELSE IF s[p] = OPEN /\ s[p + 1] = "/if" /\ s[p + 2] = CLOSE THEN p
    ELSE EndIfAt(s, p + 1)

\* /\{\{#if\s+(\S+?)\}\}([\s\S]*?)\{\{\/if\}\}/ tried at position i
IfMatch(s, i) ==
    IF i + 2 <= Len(s) /\ s[i] = OPEN /\ s[i + 1] = "#if" /\ IsSpace(s[i + 2])
    THEN LET j == SkipSpaces(s, i + 2)
             e == IF j <= Len(s) THEN NameEnd(s, j) ELSE 0
             p == IF e # 0 THEN EndIfAt(s, e + 2) ELSE 0
         IN  IF p # 0
             THEN [ok |-> TRUE, tagName |-> SubSeq(s, j, e),
                   block |-> SubSeq(s, e + 2, p - 1), next |-> p + 3]
             ELSE [ok |-> FALSE]
    ELSE [ok |-> FALSE]

\* /\{\{(\S+?)\}\}/ tried at position i
TagMatch(s, i) ==
    IF i + 2 <= Len(s) /\ s[i] = OPEN
    THEN LET e == NameEnd(s, i + 1)
         IN  IF e # 0
             THEN [ok |-> TRUE, tagName |-> SubSeq(s, i + 1, e), next |-> e + 2]
             ELSE [ok |-> FALSE]
    ELSE [ok |-> FALSE]

\* Step 2: result.replace(/\{\{(\S+?)\}\}/g, ...) from position i on
RECURSIVE ReplacePlaceholders(_, _, _)
ReplacePlaceholders(s, i, ctx) ==
    IF i > Len(s) THEN <<>>
    ELSE LET m == TagMatch(s, i)
         IN  IF m.ok
             THEN resolveTag(m.tagName, ctx)
                      \o ReplacePlaceholders(s, m.next, ctx)
             ELSE <<s[i]>> \o ReplacePlaceholders(s, i + 1, ctx)

\* Step 1 that also expands the placeholders of the blocks it keeps
RECURSIVE ResolveConditionals_Eager(_, _, _)
ResolveConditionals_Eager(s, i, ctx) ==
    IF i > Len(s) THEN <<>>
    ELSE LET m == IfMatch(s, i)
         IN  IF m.ok
             THEN (IF isTagTruthy(m.tagName, ctx)
                   THEN ReplacePlaceholders(m.block, 1, ctx) ELSE <<>>)
                      \o ResolveConditionals_Eager(s, m.next, ctx)
             ELSE <<s[i]>> \o ResolveConditionals_Eager(s, i + 1, ctx)

\* Step 1: template.replace(/\{\{#if .../g, ...) from position i on
RECURSIVE ResolveConditionals(_, _, _)
ResolveConditionals(s, i, ctx) ==
    IF i > Len(s) THEN <<>>
    ELSE LET m == IfMatch(s, i)
         IN  IF m.ok
             THEN (IF isTagTruthy(m.tagName, ctx) THEN m.block ELSE <<>>)
                      \o ResolveConditionals(s, m.next, ctx)
             ELSE <<s[i]>> \o ResolveConditionals(s, i + 1, ctx)

processTemplate(template, ctx) ==
    ReplacePlaceholders(ResolveConditionals(template, 1, ctx), 1, ctx)

----------------------------------------------------------------------------
(* Templates and contexts the engine is run on                             *)

\* Tag names written in templates: three known tags (one that may be empty,
\* one whose value may hold template syntax) and an unknown name
TemplateTags == {"title", "content", "label-footer", "zz"}

TextSeg == [kind |-> "text"]

TagSeg(n) == [kind |-> "tag", name |-> n]

\* {{#if n}}body{{/if}}; the body is plain text or one placeholder
IfSeg(n, b) == [kind |-> "if", name |-> n, body |-> b]

Segments ==
    {TextSeg} \cup {TagSeg(n) : n \in TemplateTags}
        \cup {IfSeg(n, b) : n \in TemplateTags,
                            b \in {TextSeg} \cup {TagSeg(m) : m \in TemplateTags}}

\* The text of a segment
SegText(seg) ==
    CASE seg.kind = "text" -> <<"X">>
      [] seg.kind = "tag" -> <<OPEN, seg.name, CLOSE>>
      [] seg.kind = "if" ->
            <<OPEN, "#if", " ", seg.name, CLOSE>>
                \o (IF seg.body.kind = "text" THEN <<"X">>
                    ELSE <<OPEN, seg.body.name, CLOSE>>)
                \o <<OPEN, "/if", CLOSE>>

TemplateText(segs) == Flatten([i \in 1..Len(segs) |-> SegText(segs[i])])

MaxSegments == 2

TemplateSegs == SeqsUpTo(Segments, MaxSegments)

\* makeContext (the tests' helper) with title, content and siteLabels varied
Context(title, content, labelSet) ==
    [title |-> title, content |-> content, description |-> <<>>,
     keywords |-> <<>>, basePath |-> <<>>, navigation |-> <<>>,
     siteLabels |-> labelSet, author |-> <<>>, date |-> "null",
     category |-> <<>>, labels |-> <<>>, type |-> "page"]

\* A blog post's context, every field filled
BlogContext ==
    [title |-> <<"T">>, content |-> <<"<p>", "Hello", " ", "world", "</p>">>,
     description |-> <<"D">>, keywords |-> <<"k1", ",", "k2">>,
     basePath |-> <<"/", "site">>,
     navigation |-> <<[label |-> <<"Home">>, href |-> <<"/">>, active |-> TRUE]>>,
     siteLabels |-> <<<<"htmx">>, <<"css">>>>, author |-> <<"Ann">>,
     date |-> "2026-01-15", category |-> <<"Tech">>,
     labels |-> <<<<"htmx">>>>, type |-> "blog"]

\* Titles and contents that hold template syntax themselves
ContextTitles == {<<>>, <<"T">>, <<OPEN, "#if", " ", "content", CLOSE>>}

SyntaxContexts == {Context(t, <<OPEN, "title", CLOSE>>, <<>>) : t \in ContextTitles}

Contexts ==
    {Context(t, c, l) :
        t \in {<<>>, <<"T">>},
        c \in {<<"<p>", "Hello", "</p>">>, <<OPEN, "/if", CLOSE>>},
        l \in {<<>>, <<<<"htmx">>>>}}
        \cup SyntaxContexts \cup {BlogContext}

----------------------------------------------------------------------------
(* The template registry (template-registry.ts).  A Map is the sequence of *)
(* its entries in insertion order.                                         *)

MapHas(m, k) == \E i \in 1..Len(m) : m[i].key = k

MapIndex(m, k) == CHOOSE i \in 1..Len(m) : m[i].key = k

\* Map.prototype.get: the value held, or undefined
MapGet(m, k) ==
    IF MapHas(m, k)
    THEN [defined |-> TRUE, value |-> m[MapIndex(m, k)].value]
    ELSE [defined |-> FALSE]

\* A set that appends whether or not the key is held
MapSet_AlwaysAppend(m, k, v) == Append(m, [key |-> k, value |-> v])

\* Map.prototype.set: a held key keeps its place
MapSet(m, k, v) ==
    IF MapHas(m, k)
    THEN [m EXCEPT ![MapIndex(m, k)] = [key |-> k, value |-> v]]
    ELSE Append(m, [key |-> k, value |-> v])

MapKeys(m) == [i \in 1..Len(m) |-> m[i].key]

get(name) == MapGet(templates, name)

has(name) == MapHas(templates, name)

names == MapKeys(templates)

\* !templateHtml: undefined and the empty string are both falsy
IsFalsy(templateHtml) == ~templateHtml.defined \/ templateHtml.value = <<>>

\* The outcome of render(name, context) on the registry reg
render(reg, name, context) ==
    LET templateHtml == MapGet(reg, name)
    IN  IF IsFalsy(templateHtml)
        THEN [kind |-> "error", name |-> name, at |-> reg,
              template |-> name, available |-> MapKeys(reg)]
        ELSE [kind |-> "ok", name |-> name, at |-> reg,
              html |-> processTemplate(templateHtml.value, context)]

RegisteredNames == {"default", "blog"}

RenderedNames == RegisteredNames \cup {"landing"}

TemplateBodies ==
    {<<>>, <<"X">>, <<OPEN, "#if", " ", "title", CLOSE, OPEN, "title", CLOSE,
                     OPEN, "/if", CLOSE>>}

\* The number of register calls followed
MaxRegisterCalls == 3

RegContexts == {Context(<<>>, <<"c">>, <<>>), Context(<<"T">>, <<"c">>, <<>>)}

----------------------------------------------------------------------------
(* The site builder (builder.ts) and the page metadata (page-metadata.ts). *)
(* A content file is its relative path, its name and the data of its       *)
(* header.  Header scalars are strings without blanks around them, "" for  *)
(* an absent or empty field; a label is a text, a sequence of characters.  *)

\* process.env.BASE_PATH || ''
BasePath == <<>>

\* config.defaultTitle
DefaultTitle == ""

DefaultOrder == 999

\* s.replace(/\.md$/, with)
ReplaceMdSuffix(s, with) ==
    IF EndsWith(s, MdSuffix) THEN SubSeq(s, 1, Len(s) - Len(MdSuffix)) \o with
    ELSE s

getUrlPath(relativePath) ==
    LET urlPath  == ReplaceBackslashes(ReplaceMdSuffix(relativePath, <<>>))
        stripped == IF EndsWith(urlPath, <<"/", "index">>)
                    THEN SubSeq(urlPath, 1, Len(urlPath) - 2) ELSE urlPath
        slashed  == IF StartsWith(stripped, <<"/">>) THEN stripped
                    ELSE <<"/">> \o stripped
    IN  IF urlPath = <<"index">> THEN BasePath \o <<"/">>
        ELSE BasePath \o slashed

isActivePath(href, filePath) ==
    LET rest      == SubSeq(href, Len(BasePath) + 1, Len(href))
        cleanHref == IF BasePath # <<>> /\ StartsWith(href, BasePath)
                     THEN (IF rest = <<>> THEN <<"/">> ELSE rest)
                     ELSE href
        urlPath   == <<"/">> \o ReplaceBackslashes(ReplaceMdSuffix(filePath, HtmlSuffix))
    IN  IF cleanHref = <<"/">>
        THEN urlPath = <<"/", "index", ".", "html">> \/ filePath = <<"index", ".", "md">>
        ELSE \/ StartsWith(urlPath, cleanHref \o <<"/">>)
             \/ urlPath = cleanHref \o HtmlSuffix

\* The values of a header field as gray-matter hands them over: undefined
\* (no such key), null, a string, a number, a boolean, a date or a list of
\* strings.  A number is n, or n + 1/2 when half holds.
Undefined == [kind |-> "undefined", s |-> "", n |-> 0, half |-> FALSE, items |-> <<>>]

Null == [kind |-> "null", s |-> "", n |-> 0, half |-> FALSE, items |-> <<>>]

Str(s) == [kind |-> "string", s |-> s, n |-> 0, half |-> FALSE, items |-> <<>>]

Num(n) == [kind |-> "number", s |-> "", n |-> n, half |-> FALSE, items |-> <<>>]

NumAndHalf(n) == [kind |-> "number", s |-> "", n |-> n, half |-> TRUE, items |-> <<>>]

Bool(b) ==
    [kind |-> "boolean", s |-> "", n |-> IF b THEN 1 ELSE 0, half |-> FALSE,
     items |-> <<>>]

\* A YAML timestamp, a Date whose time is day t
DateValue(t) == [kind |-> "date", s |-> "", n |-> t, half |-> FALSE, items |-> <<>>]

List(items) == [kind |-> "list", s |-> "", n |-> 0, half |-> FALSE, items |-> items]

\* A JavaScript number: NaN, or n, or n + 1/2
NaN == [nan |-> TRUE, n |-> 0, half |-> FALSE]

Number(n, half) == [nan |-> FALSE, n |-> n, half |-> half]

\* a < b on numbers, false when either is NaN
NumberLess(a, b) ==
    /\ ~a.nan /\ ~b.nan
    /\ \/ a.n < b.n
       \/ a.n = b.n /\ ~a.half /\ b.half

\* ToBoolean
IsTruthy(v) ==
    CASE v.kind \in {"undefined", "null"} -> FALSE
      [] v.kind = "string" -> v.s # ""
      [] v.kind = "number" -> v.n # 0 \/ v.half
      [] v.kind = "boolean" -> v.n = 1
      [] v.kind \in {"date", "list"} -> TRUE

\* The decimal strings the headers use, and what Number() makes of a string:
\* the empty string is 0, a string that is no number is NaN
StringToNumber(s) ==
    CASE s = "" -> Number(0, FALSE)
      [] s = "1" -> Number(1, FALSE)
      [] s = "2" -> Number(2, FALSE)
      [] OTHER -> NaN

\* String(v)
ToStr(v) ==
    CASE v.kind = "undefined" -> "undefined"
      [] v.kind = "null" -> "null"
      [] v.kind = "string" -> v.s
      [] v.kind = "number" -> IF v.half THEN ToString(v.n) \o ".5" ELSE ToString(v.n)
      [] v.kind = "boolean" -> IF v.n = 1 THEN "true" ELSE "false"
      [] v.kind = "date" -> "Date(" \o ToString(v.n) \o ")"
      [] v.kind = "list" ->
            IF v.items = <<>> THEN ""
            ELSE IF Len(v.items) = 1 THEN v.items[1]
            ELSE v.items[1] \o "," \o v.items[2]

\* Number(v)
ToNumber(v) ==
    CASE v.kind = "undefined" -> NaN
      [] v.kind = "null" -> Number(0, FALSE)
      [] v.kind = "string" -> StringToNumber(v.s)
      [] v.kind \in {"number", "boolean"} -> Number(v.n, v.half)
      [] v.kind = "date" -> Number(v.n, FALSE)
      [] v.kind = "list" -> StringToNumber(ToStr(v))

\* String.prototype.trim on a header string: a header string is blank or has
\* no blank at either end
TrimString(s) == IF s \in {" ", "  "} THEN "" ELSE s

\* (value as string) || fallback
OrElse(v, fallback) == IF IsTruthy(v) THEN ToStr(v) ELSE fallback

\* A Date or null: the time is a day number, an unparseable date has none
NullDate == [null |-> TRUE, valid |-> FALSE, t |-> 0]

\* new Date(value)
NewDate(v) ==
    CASE v.kind \in {"date", "number"} -> [null |-> FALSE, valid |-> TRUE, t |-> v.n]
      [] OTHER -> [null |-> FALSE, valid |-> FALSE, t |-> 0]

\* parseStringArray: nothing, the one value, or the array as it is.  A Labels
\* or Keywords value is absent, null, one text or a list of texts.
parseStringArray(value) ==
    CASE value.kind \in {"absent", "null"} -> <<>>
      [] value.kind = "scalar" -> IF value.items[1] = <<>> THEN <<>> ELSE value.items
      [] value.kind = "list" -> value.items

VALID_TYPES == {"page", "post", "section"}

\* A type every value passes
IsValidType_Any(type) == TRUE

\* VALID_TYPES.includes(type)
IsValidType(type) == type.kind = "string" /\ type.s \in VALID_TYPES

parsePageMetadata(data) ==
    LET shortUri == TrimString(ToStr(data.shortUri))
        type == IF IsTruthy(data.type) THEN data.type ELSE Str("page")
        parent == IF data.parent.kind \in {"null", "undefined"} \/ data.parent = Str("")
                  THEN Str("root") ELSE data.parent
        order == IF data.order.kind \notin {"undefined", "null"}
                 THEN ToNumber(data.order) ELSE Number(DefaultOrder, FALSE)
    IN  IF ~IsTruthy(data.shortUri)
        THEN [ok |-> FALSE, error |-> "Short-URI is required"]
        ELSE IF ~IsValidType(type) THEN [ok |-> FALSE, error |-> "Invalid Type"]
        ELSE [ok |-> TRUE,
              shortUri |-> shortUri,
              title |-> IF IsTruthy(data.title) THEN ToStr(data.title)
                        ELSE OrElse(data.Title, shortUri),
              type |-> type.s,
              category |-> OrElse(data.category, ""),
              labels |-> parseStringArray(data.labels),
              parent |-> ToStr(parent),
              order |-> IF order.nan THEN Number(DefaultOrder, FALSE) ELSE order,
              author |-> OrElse(data.author, ""),
              date |-> IF IsTruthy(data.date) THEN NewDate(data.date) ELSE NullDate,
              description |-> OrElse(data.description, ""),
              keywords |-> parseStringArray(data.keywords),
              template |-> OrElse(data.template, "default")]

\* a.label.localeCompare(b.label): the place of a label in the collation
CollationOrder ==
    <<"2024", "about", "blog", "home", "index", "post", "T1", "T2", "T3", "T4",
      "T5", "x">>

Collate(label) == CHOOSE i \in 1..Len(CollationOrder) : CollationOrder[i] = label

\* The comparator of navItems.sort, negative
NavBefore(a, b) ==
    \/ NumberLess(a.order, b.order)
    \/ a.order = b.order /\ Collate(a.label) < Collate(b.label)

RECURSIVE InsertNav(_, _)
InsertNav(sorted, item) ==
    IF sorted = <<>> THEN <<item>>
    ELSE IF NavBefore(item, Head(sorted)) THEN <<item>> \o sorted
    ELSE <<Head(sorted)>> \o InsertNav(Tail(sorted), item)

\* A sort that leaves the items as they came
SortNav_Unsorted(items) == items

\* Array.prototype.sort, stable
RECURSIVE SortNav(_)
SortNav(items) ==
    IF items = <<>> THEN <<>>
    ELSE InsertNav(SortNav(SubSeq(items, 1, Len(items) - 1)), items[Len(items)])

RECURSIVE CollectNavItems(_)
CollectNavItems(files) ==
    IF files = <<>> THEN <<>>
    ELSE LET file == Head(files)
             metadata == parsePageMetadata(file.data)
             \* metadata.title is never empty: the name of the file is not used
             item == [label |-> metadata.title,
                      href |-> getUrlPath(file.relativePath),
                      order |-> metadata.order]
         IN  (IF metadata.ok /\ metadata.parent = "root" THEN <<item>> ELSE <<>>)
                 \o CollectNavItems(Tail(files))

generateNavigation(files) == SortNav(CollectNavItems(files))

\* One entry of the children map
ChildPageData(metadata, url) ==
    [title |-> metadata.title, url |-> url, description |-> metadata.description,
     date |-> metadata.date, category |-> metadata.category,
     labels |-> metadata.labels, author |-> metadata.author,
     type |-> metadata.type, shortUri |-> metadata.shortUri,
     order |-> metadata.order]

\* map.get(key).push(item), the list made first when the key is new
MapPush(m, k, item) ==
    MapSet(m, k, (IF MapHas(m, k) THEN MapGet(m, k).value ELSE <<>>) \o <<item>>)

RECURSIVE collectChildrenMap(_)
collectChildrenMap(files) ==
    IF files = <<>> THEN <<>>
    ELSE LET file == files[Len(files)]
             metadata == parsePageMetadata(file.data)
             before == collectChildrenMap(SubSeq(files, 1, Len(files) - 1))
         IN  IF metadata.ok
             THEN MapPush(before, metadata.parent,
                          ChildPageData(metadata, getUrlPath(file.relativePath)))
             ELSE before

\* Set.prototype.add over a sequence of labels
RECURSIVE AddAll(_, _)
AddAll(seen, labels) ==
    IF labels = <<>> THEN seen
    ELSE AddAll(IF \E i \in 1..Len(seen) : seen[i] = Head(labels)
                THEN seen ELSE Append(seen, Head(labels)),
                Tail(labels))

RECURSIVE collectSiteLabels(_)
collectSiteLabels(files) ==
    IF files = <<>> THEN <<>>
    ELSE LET metadata == parsePageMetadata(files[Len(files)].data)
             before == collectSiteLabels(SubSeq(files, 1, Len(files) - 1))
         IN  IF metadata.ok THEN AddAll(before, metadata.labels) ELSE before

RECURSIVE collectAllPageMetadata(_)
collectAllPageMetadata(files) ==
    IF files = <<>> THEN <<>>
    ELSE LET file == Head(files)
             metadata == parsePageMetadata(file.data)
         IN  (IF metadata.ok
              THEN <<[metadata |-> metadata, url |-> getUrlPath(file.relativePath)]>>
              ELSE <<>>)
                 \o collectAllPageMetadata(Tail(files))

\* generatePageIndex (page-index.ts): one PageIndexEntry per page
generatePageIndex(allPageMeta) ==
    [i \in 1..Len(allPageMeta) |->
        [url |-> allPageMeta[i].url,
         title |-> allPageMeta[i].metadata.title,
         description |-> allPageMeta[i].metadata.description,
         labels |-> allPageMeta[i].metadata.labels,
         category |-> allPageMeta[i].metadata.category,
         date |-> allPageMeta[i].metadata.date]]

\* The body of a content file below its heading: a :::children directive
\* with its sort mode ("none" without one), or the listing put in its place
NoDirective == [directive |-> "none", listed |-> FALSE, items |-> <<>>]

Directive(sort) == [directive |-> sort, listed |-> FALSE, items |-> <<>>]

\* content.includes(':::children')
IncludesChildren(body) == body.directive # "none"

\* The time a child is sorted by, a child without a date last
DateKey(date) == IF date.null \/ ~date.valid THEN -1 ELSE date.t

\* The comparator of the requested sort mode, negative: newest first for
\* date-desc, the order field for any other mode
ChildComesFirst(sort, a, b) ==
    IF sort = "date-desc" THEN DateKey(a.date) > DateKey(b.date)
    ELSE NumberLess(a.order, b.order)

RECURSIVE InsertSorted(_, _, _)
InsertSorted(sort, sorted, item) ==
    IF sorted = <<>> THEN <<item>>
    ELSE IF ChildComesFirst(sort, item, Head(sorted)) THEN <<item>> \o sorted
    ELSE <<Head(sorted)>> \o InsertSorted(sort, Tail(sorted), item)

RECURSIVE SortChildren(_, _)
SortChildren(sort, children) ==
    IF children = <<>> THEN <<>>
    ELSE InsertSorted(sort, SortChildren(sort, SubSeq(children, 1, Len(children) - 1)),
                      children[Len(children)])

\* processChildrenDirectives (children-directive.ts): the directive replaced
\* by the listing of the children, in the order its sort mode asks for
processChildrenDirectives(body, children) ==
    LET sorted == SortChildren(body.directive, children)
    IN  [directive |-> "none", listed |-> TRUE,
         items |-> [i \in 1..Len(sorted) |->
                       [title |-> sorted[i].title, url |-> sorted[i].url,
                        description |-> sorted[i].description,
                        date |-> sorted[i].date]]]

\* childrenMap.get(shortUri) || []: the key is the header's value as it is,
\* and a Map holds a string key only under that string
ChildrenOf(map, shortUri) ==
    IF shortUri.kind = "string" /\ MapHas(map, shortUri.s)
    THEN MapGet(map, shortUri.s).value ELSE <<>>

\* The content of a file with its :::children directives resolved
ResolveChildren(file, map) ==
    IF IncludesChildren(file.body) /\ IsTruthy(file.data.shortUri)
    THEN [file EXCEPT !.body = processChildrenDirectives(
                                   file.body, ChildrenOf(map, file.data.shortUri))]
    ELSE file

\* compileWithFrontmatter (markdown.ts): the compiled body and the header
processMarkdown(file) ==
    [html |-> <<"<h1>", file.name, "</h1>">>, body |-> file.body, data |-> file.data]

\* processFile
processFile(file) ==
    LET result == processMarkdown(file)
    IN  [html |-> result.html, body |-> result.body, data |-> result.data,
         outputPath |-> getOutputPath(file.relativePath)]

\* The body of a page: compiled markdown
MarkdownContent(html, body) ==
    [kind |-> "markdown", html |-> html, body |-> body, label |-> <<>>,
     pages |-> <<>>]

\* LabelIndex.render (components/label-index.ts): the label as heading and
\* one linked entry per page
LabelIndexRender(label, pages) ==
    [kind |-> "label-index", html |-> <<>>, body |-> NoDirective, label |-> label,
     pages |-> pages]

\* TemplateEngine.renderPage and Layout.render, the page by its parts
renderPage(data) ==
    [title |-> IF data.frontmatterTitle # "" THEN <<data.frontmatterTitle>>
               ELSE data.title,
     description |-> data.description,
     navigation |-> data.navigation,
     main |-> data.content,
     siteLabels |-> data.siteLabels,
     basePath |-> data.basePath]

\* What a written file holds: a rendered page, or the page index as JSON
HtmlFile(page) == [kind |-> "html", page |-> page, json |-> <<>>]

JsonFile(value) ==
    [kind |-> "json",
     page |-> [title |-> <<>>, description |-> <<>>, navigation |-> <<>>,
               main |-> MarkdownContent(<<>>, NoDirective), siteLabels |-> <<>>,
               basePath |-> <<>>],
     json |-> value]

\* A write that leaves no other file
WriteFile_Alone(fs, path, data) == {[path |-> path, data |-> data]}

\* writeFileSync: the file made, or its content replaced
WriteFile(fs, path, data) ==
    {f \in fs : f.path # path} \cup {[path |-> path, data |-> data]}

\* join(outputDir, outputPath), relative to outputDir
RECURSIVE JoinOutputDir(_)
JoinOutputDir(outputPath) ==
    IF outputPath # <<>> /\ Head(outputPath) = "/"
    THEN JoinOutputDir(Tail(outputPath)) ELSE outputPath

\* join(outputDir, 'label', slug, 'index.html'), relative to outputDir
LabelIndexPath(slug) ==
    <<"label">> \o (IF slug = <<>> THEN <<>> ELSE <<"/">> \o slug)
        \o <<"/", "index", ".", "html">>

PageIndexPath == <<"fragments", "/", "page-index", ".", "json">>

\* The pages of the index grouped by label, labels in order of first use
RECURSIVE GroupEntry(_, _, _)
GroupEntry(labelPages, entry, labels) ==
    IF labels = <<>> THEN labelPages
    ELSE GroupEntry(MapPush(labelPages, Head(labels), entry), entry, Tail(labels))

RECURSIVE GroupByLabel(_)
GroupByLabel(index) ==
    IF index = <<>> THEN <<>>
    ELSE GroupEntry(GroupByLabel(SubSeq(index, 1, Len(index) - 1)),
                    index[Len(index)], index[Len(index)].labels)

MinLabelPages == 2

\* The page written for one label
LabelPage(label, pages, nav, labelSet) ==
    renderPage([title |-> <<"Label: ">> \o label,
                description |-> <<"All pages tagged with ">> \o label,
                content |-> LabelIndexRender(label,
                               [i \in 1..Len(pages) |->
                                   [url |-> pages[i].url, title |-> pages[i].title,
                                    description |-> pages[i].description,
                                    category |-> pages[i].category,
                                    date |-> pages[i].date]]),
                frontmatterTitle |-> "",
                navigation |-> nav, siteLabels |-> labelSet,
                basePath |-> BasePath])

\* The second loop of generateLabelIndexPages over the first n groups
RECURSIVE WriteLabelPages(_, _, _, _, _)
WriteLabelPages(fs, labelPages, n, nav, labelSet) ==
    IF n = 0 THEN fs
    ELSE LET before == WriteLabelPages(fs, labelPages, n - 1, nav, labelSet)
             label == labelPages[n].key
             pages == labelPages[n].value
         IN  IF Len(pages) < MinLabelPages THEN before
             ELSE WriteFile(before, LabelIndexPath(generateLabelSlug(label)),
                            HtmlFile(LabelPage(label, pages, nav, labelSet)))

generateLabelIndexPages(fs, index, nav, labelSet) ==
    LET labelPages == GroupByLabel(index)
    IN  WriteLabelPages(fs, labelPages, Len(labelPages), nav, labelSet)

----------------------------------------------------------------------------
(* The hierarchy builder (hierarchy.ts): index the pages by shortUri,      *)
(* attach each page to the node its parent names or to the synthetic root, *)
(* fail on an orphan or on a cycle of parent references.                   *)

RootUri == "root"

\* The index of the pages by shortUri
IsIndexed(ps, uri) == \E i \in 1..Len(ps) : ps[i].shortUri = uri

PageAt(ps, uri) == ps[CHOOSE i \in 1..Len(ps) : ps[i].shortUri = uri]

\* No page taken for an orphan
IsOrphan_Never(ps, page) == FALSE

\* A page whose parent is not "root" and names no page
IsOrphan(ps, page) == page.parent # RootUri /\ ~IsIndexed(ps, page.parent)

\* Walking up from uri, a page is met a second time
RECURSIVE ClimbsIntoCycle(_, _, _)
ClimbsIntoCycle(ps, uri, visited) ==
    IF uri = RootUri \/ ~IsIndexed(ps, uri) THEN FALSE
    ELSE IF uri \in visited THEN TRUE
    ELSE ClimbsIntoCycle(ps, PageAt(ps, uri).parent, visited \cup {uri})

\* The node a page is attached to, always the root
ParentNode_AlwaysRoot(page) == RootUri

\* The node a page is attached to
ParentNode(page) == IF page.parent = RootUri THEN RootUri ELSE page.parent

\* Children in ascending order, ties by title
ChildBefore(a, b) ==
    \/ a.order < b.order
    \/ a.order = b.order /\ Collate(a.title) < Collate(b.title)

RECURSIVE InsertChild(_, _)
InsertChild(children, page) ==
    IF children = <<>> THEN <<page>>
    ELSE IF ChildBefore(page, Head(children)) THEN <<page>> \o children
    ELSE <<Head(children)>> \o InsertChild(Tail(children), page)

AttachChild(m, page) ==
    MapSet(m, ParentNode(page),
           InsertChild(IF MapHas(m, ParentNode(page))
                       THEN MapGet(m, ParentNode(page)).value ELSE <<>>, page))

MaxHierPages == 3

HierUris == {"about", "blog", "post"}

\* Parent fields: the root, the pages, and a name no page has
HierParents == {RootUri} \cup HierUris \cup {"index"}

HierOrders == {1, 2}

HierPageSets ==
    {ps \in SeqsUpTo([shortUri : HierUris, parent : HierParents], MaxHierPages) :
        \A i, j \in 1..Len(ps) : ps[i].shortUri = ps[j].shortUri => i = j}

----------------------------------------------------------------------------
(* The raw HTML blocks (html-blocks.ts).  A body is a sequence of lines;   *)
(* a block opens with the line :::html and closes with the next line :::.  *)
(* The compiled HTML is a sequence of tokens.                              *)

FenceOpen == ":::html"

FenceClose == ":::"

PlaceholderNames ==
    <<"<!--HTML_BLOCK_0-->", "<!--HTML_BLOCK_1-->", "<!--HTML_BLOCK_2-->">>

\* `<!--HTML_BLOCK_${n}-->`
Placeholder(n) == PlaceholderNames[n + 1]

\* The first closing fence at or after line p, 0 when there is none
RECURSIVE NextFenceClose(_, _)
NextFenceClose(s, p) ==
    IF p > Len(s) THEN 0
    ELSE IF s[p] = FenceClose THEN p
    ELSE NextFenceClose(s, p + 1)

\* extractHtmlBlocks from line i on, n blocks found so far
RECURSIVE ExtractFrom(_, _, _)
ExtractFrom(s, i, n) ==
    IF i > Len(s) THEN [markdown |-> <<>>, blocks |-> <<>>]
    ELSE IF s[i] = FenceOpen /\ NextFenceClose(s, i + 1) # 0
    THEN LET c == NextFenceClose(s, i + 1)
             rest == ExtractFrom(s, c + 1, n + 1)
         IN  [markdown |-> <<Placeholder(n)>> \o rest.markdown,
              blocks |-> <<[key |-> Placeholder(n),
                            value |-> SubSeq(s, i + 1, c - 1)]>> \o rest.blocks]
    ELSE LET rest == ExtractFrom(s, i + 1, n)
         IN  [markdown |-> <<s[i]>> \o rest.markdown, blocks |-> rest.blocks]

extractHtmlBlocks(markdown) == ExtractFrom(markdown, 1, 0)

\* A line that is HTML by itself: an element or a comment
IsHtmlLine(line) == line = "<div>" \/ \E n \in 1..Len(PlaceholderNames) : PlaceholderNames[n] = line

IsCommentLine(line) == \E n \in 1..Len(PlaceholderNames) : PlaceholderNames[n] = line

\* marked: a line of text becomes a paragraph, an element passes, a comment
\* passes or is wrapped in a paragraph
CompileLine(line, wrapped) ==
    IF ~IsHtmlLine(line) \/ (IsCommentLine(line) /\ wrapped)
    THEN <<"<p>", line, "</p>">>
    ELSE <<line>>

compile(markdown, wraps) ==
    Flatten([i \in 1..Len(markdown) |-> CompileLine(markdown[i], wraps[i])])

\* The first place at or after i where pat occurs in s, 0 when there is none
RECURSIVE IndexOf(_, _, _)
IndexOf(s, pat, i) ==
    IF i + Len(pat) - 1 > Len(s) THEN 0
    ELSE IF SubSeq(s, i, i + Len(pat) - 1) = pat THEN i
    ELSE IndexOf(s, pat, i + 1)

\* s.replace(pat, with): the first occurrence, or every one
RECURSIVE Replace(_, _, _, _, _)
Replace(s, pat, with, all, i) ==
    LET at == IndexOf(s, pat, i)
    IN  IF at = 0 THEN SubSeq(s, i, Len(s))
        ELSE SubSeq(s, i, at - 1) \o with
                 \o (IF all THEN Replace(s, pat, with, all, at + Len(pat))
                     ELSE SubSeq(s, at + Len(pat), Len(s)))

\* One block restored: the placeholder in a paragraph wrapper, then bare
RestoreBlock(html, block, all) ==
    Replace(Replace(html, <<"<p>", block.key, "</p>">>, block.value, all, 1),
            <<block.key>>, block.value, all, 1)

\* restoreHtmlBlocks over the first n blocks
RECURSIVE RestoreBlocks(_, _, _, _)
RestoreBlocks(html, blocks, n, all) ==
    IF n = 0 THEN html
    ELSE RestoreBlock(RestoreBlocks(html, blocks, n - 1, all), blocks[n], all)

restoreHtmlBlocks(html, blocks, all) == RestoreBlocks(html, blocks, Len(blocks), all)

BodyLines == {"para", FenceOpen, FenceClose, "<div>", "<!--HTML_BLOCK_0-->"}

MaxBodyLines == 4

Bodies == SeqsUpTo(BodyLines, MaxBodyLines)

----------------------------------------------------------------------------
(* SpecPath: getOutputPath applied to a scanned path                       *)

PathIdle ==
    /\ relPath = <<>> /\ outPath = <<>> /\ outAgain = <<>> /\ pageUrl = <<>>
    /\ pathPc = "idle"

NoCtx == [title |-> <<>>]

TplIdle ==
    /\ tplSegs = <<>> /\ tplCtx = NoCtx /\ tplText = <<>> /\ tplPc = "idle"

RegIdle ==
    /\ templates = <<>> /\ regCalls = <<>> /\ regCtx = NoCtx
    /\ rendered = [kind |-> "idle"]

NoError == [thrown |-> FALSE, file |-> 0, at |-> "none"]

BuildIdle ==
    /\ contentFiles = <<>> /\ navigation = <<>> /\ childrenMap = <<>>
    /\ siteLabels = <<>> /\ fileIdx = 0 /\ pageIndex = <<>> /\ dist = {}
    /\ buildError = NoError /\ buildPc = "idle"

HierIdle ==
    /\ hierPages = <<>> /\ hierChildren = <<>> /\ hierIdx = 0
    /\ hierResult = [kind |-> "none"] /\ hierPc = "idle"

BlkIdle ==
    /\ blkBody = <<>> /\ blkMasked = <<>> /\ blkTable = <<>> /\ blkHtml = <<>>
    /\ blkVia = "none" /\ blkPc = "idle"

MetaIdle == metaData = <<>> /\ metaResult = <<>> /\ metaPc = "idle"

UriIdle ==
    /\ uriTitle = <<>> /\ uriExisting = [given |-> FALSE, uris |-> {}]
    /\ uriBase = <<>> /\ uriCounter = 0 /\ uriCandidate = <<>>
    /\ uriResult = <<>> /\ uriPc = "idle"

SeoIdle ==
    /\ seoPages = <<>> /\ seoSiteUrl = <<>> /\ seoBasePath = <<>>
    /\ seoXml = <<>> /\ seoPc = "idle"

NavIdle ==
    /\ navItemFile = <<>> /\ navFile = <<>> /\ navHref = <<>>
    /\ navActive = FALSE /\ navPc = "idle"

NoCall == [ran |-> FALSE, label |-> <<>>, index |-> <<>>, href |-> <<>>]

NotCached == [cached |-> FALSE, index |-> <<>>]

CliIdle ==
    /\ cliServed = <<>> /\ pageIndexCache = NotCached /\ cliCalls = <<>>
    /\ cliRequests = 0 /\ cliClicks = 0 /\ cliLast = NoCall
    /\ cliLocation = <<"idle">>

SlugIdle ==
    /\ slugText = <<>> /\ slugClient = <<>> /\ slugMeta = <<>>
    /\ slugBuild = <<>> /\ slugPc = "idle"

PathInit ==
    /\ relPath \in ScannedPaths
    /\ outPath = <<>>
    /\ outAgain = <<>>
    /\ pageUrl = <<>>
    /\ pathPc = "start"
    /\ SlugIdle /\ TplIdle /\ RegIdle /\ BuildIdle /\ HierIdle /\ BlkIdle /\ MetaIdle
    /\ UriIdle /\ SeoIdle /\ NavIdle /\ CliIdle

ComputeOutputPath ==
    /\ pathPc = "start"
    /\ outPath' = getOutputPath(relPath)
    /\ pathPc' = "done"
    /\ UNCHANGED <<relPath, outAgain, pageUrl, slugVars, tplVars, regVars, buildVars,
                   hierVars, blkVars, metaVars, uriVars,
                   seoVars, navVars, cliVars>>

\* s.replace(/\.html$/, '').replace(/\/index$/, '')
StripHtmlAndIndex(s) ==
    LET noHtml == IF EndsWith(s, HtmlSuffix)
                  THEN SubSeq(s, 1, Len(s) - Len(HtmlSuffix)) ELSE s
    IN  IF EndsWith(noHtml, <<"/", "index">>)
        THEN SubSeq(noHtml, 1, Len(noHtml) - 2) ELSE noHtml

\* getOutputPath applied to its own output, '.html' and '/index' stripped
ReapplyOutputPath ==
    /\ pathPc = "done"
    /\ outAgain' = getOutputPath(StripHtmlAndIndex(outPath))
    /\ pathPc' = "again"
    /\ UNCHANGED <<relPath, outPath, pageUrl, slugVars, tplVars, regVars, buildVars,
                   hierVars, blkVars, metaVars, uriVars,
                   seoVars, navVars, cliVars>>

\* getUrlPath for the same file: the href and url the build gives the page
ComputeUrlPath ==
    /\ pathPc # "idle"
    /\ pageUrl = <<>>
    /\ pageUrl' = getUrlPath(relPath)
    /\ UNCHANGED <<relPath, outPath, outAgain, pathPc, slugVars, tplVars,
                   regVars, buildVars, hierVars, blkVars, metaVars, uriVars,
                   seoVars, navVars, cliVars>>

PathNext == ComputeOutputPath \/ ReapplyOutputPath \/ ComputeUrlPath

SpecPath == PathInit /\ [][PathNext]_vars


----------------------------------------------------------------------------
(* SpecSlug: the three slug functions applied to one label text            *)

SlugInit ==
    /\ slugText \in LabelTexts
    /\ slugClient = <<>> /\ slugMeta = <<>> /\ slugBuild = <<>>
    /\ slugPc = "start"
    /\ PathIdle /\ TplIdle /\ RegIdle /\ BuildIdle /\ HierIdle /\ BlkIdle /\ MetaIdle
    /\ UriIdle /\ SeoIdle /\ NavIdle /\ CliIdle

ComputeSlugs ==
    /\ slugPc = "start"
    /\ slugClient' = labelSlug(slugText)
    /\ slugMeta' = generateSlug(slugText)
    /\ slugBuild' = generateLabelSlug(slugText)
    /\ slugPc' = "done"
    /\ UNCHANGED <<slugText, pathVars, tplVars, regVars, buildVars, hierVars, blkVars,
                   metaVars, uriVars, seoVars, navVars,
                   cliVars>>

SlugNext == ComputeSlugs

SpecSlug == SlugInit /\ [][SlugNext]_vars

----------------------------------------------------------------------------
(* SpecTpl: processTemplate, one action per step                           *)

TplInit ==
    /\ tplSegs \in TemplateSegs
    /\ tplCtx \in Contexts
    /\ tplText = TemplateText(tplSegs)
    /\ tplPc = "start"
    /\ PathIdle /\ SlugIdle /\ RegIdle /\ BuildIdle /\ HierIdle /\ BlkIdle /\ MetaIdle
    /\ UriIdle /\ SeoIdle /\ NavIdle /\ CliIdle

\* Step 1: resolve the conditionals
TplResolveConditionals ==
    /\ tplPc = "start"
    /\ tplText' = ResolveConditionals(tplText, 1, tplCtx)
    /\ tplPc' = "conds"
    /\ UNCHANGED <<tplSegs, tplCtx, pathVars, slugVars, regVars, buildVars, hierVars, blkVars,
                   metaVars, uriVars, seoVars, navVars,
                   cliVars>>

\* Step 2: replace the remaining placeholders
TplReplacePlaceholders ==
    /\ tplPc = "conds"
    /\ tplText' = ReplacePlaceholders(tplText, 1, tplCtx)
    /\ tplPc' = "done"
    /\ UNCHANGED <<tplSegs, tplCtx, pathVars, slugVars, regVars, buildVars, hierVars, blkVars,
                   metaVars, uriVars, seoVars, navVars,
                   cliVars>>

TplNext == TplResolveConditionals \/ TplReplacePlaceholders

SpecTpl == TplInit /\ [][TplNext]_vars

----------------------------------------------------------------------------
(* SpecReg: a TemplateRegistry under register and render calls             *)

RegInit ==
    /\ templates = <<>>
    /\ regCalls = <<>>
    /\ regCtx = NoCtx
    /\ rendered = [kind |-> "idle"]
    /\ PathIdle /\ SlugIdle /\ TplIdle /\ BuildIdle /\ HierIdle /\ BlkIdle /\ MetaIdle
    /\ UriIdle /\ SeoIdle /\ NavIdle /\ CliIdle

Register ==
    \E name \in RegisteredNames, templateHtml \in TemplateBodies :
        /\ Len(regCalls) < MaxRegisterCalls
        /\ templates' = MapSet(templates, name, templateHtml)
        /\ regCalls' = Append(regCalls, [name |-> name, templateHtml |-> templateHtml])
        /\ UNCHANGED <<regCtx, rendered, pathVars, slugVars, tplVars, buildVars, hierVars, blkVars,
                   metaVars, uriVars, seoVars, navVars,
                   cliVars>>

Render ==
    \E name \in RenderedNames, context \in RegContexts :
        /\ regCtx' = context
        /\ rendered' = render(templates, name, context)
        /\ UNCHANGED <<templates, regCalls, pathVars, slugVars, tplVars, buildVars,
                       hierVars, blkVars,
                   metaVars, uriVars, seoVars, navVars,
                   cliVars>>

RegNext == Register \/ Render

SpecReg == RegInit /\ [][RegNext]_vars

----------------------------------------------------------------------------
(* SpecBuild: SiteBuilder.build over a content directory                   *)

MaxPages == 3

\* The content files in the order scanContent returns them
ContentPaths ==
    << <<"index", ".", "md">>, <<"about", ".", "md">>,
       <<"blog", "/", "post", ".", "md">>, <<"blog", "/", "index", ".", "md">> >>

ContentNames == <<"index.md", "about.md", "post.md", "index.md">>

ShortUris == <<"index", "about", "post", "blog">>

Titles == <<"T1", "T2", "T3", "T4">>

\* The Labels lists of the headers: labels that differ only in case, and a
\* label written twice
PageLabelLists ==
    {<<>>, << <<"a">> >>, << <<"b">> >>, << <<"B">> >>,
     << <<"a">>, <<"b">> >>, << <<"b">>, <<"B">> >>, << <<"a">>, <<"a">> >>}

\* The i-th content file, with the given Labels
ContentFile(i, labels) ==
    [relativePath |-> ContentPaths[i], name |-> ContentNames[i],
     data |-> [shortUri |-> Str(ShortUris[i]), title |-> Str(Titles[i]),
               Title |-> Undefined, type |-> Undefined, parent |-> Undefined,
               order |-> Undefined, category |-> Undefined,
               labels |-> IF labels = <<>>
                          THEN [kind |-> "absent", items |-> <<>>]
                          ELSE [kind |-> "list", items |-> labels],
               author |-> Undefined, date |-> Undefined, description |-> Undefined,
               keywords |-> [kind |-> "absent", items |-> <<>>],
               template |-> Undefined],
     body |-> NoDirective]

ContentDirs ==
    UNION {{[i \in 1..n |-> ContentFile(i, ls[i])] : ls \in [1..n -> PageLabelLists]} :
              n \in 0..Min(MaxPages, Len(ContentPaths))}

BuildInit ==
    /\ contentFiles \in ContentDirs
    /\ navigation = <<>> /\ childrenMap = <<>> /\ siteLabels = <<>>
    /\ fileIdx = 0 /\ pageIndex = <<>> /\ dist = {}
    /\ buildError = NoError
    /\ buildPc = "start"
    /\ PathIdle /\ SlugIdle /\ TplIdle /\ RegIdle /\ HierIdle /\ BlkIdle /\ MetaIdle
    /\ UriIdle /\ SeoIdle /\ NavIdle /\ CliIdle

\* build, up to the per-file loop
BuildCollect ==
    /\ buildPc = "start"
    /\ navigation' = generateNavigation(contentFiles)
    /\ childrenMap' = collectChildrenMap(contentFiles)
    /\ siteLabels' = collectSiteLabels(contentFiles)
    /\ fileIdx' = 1
    /\ buildPc' = "files"
    /\ UNCHANGED <<contentFiles, pageIndex, dist, buildError, pathVars, slugVars,
                   tplVars, regVars, hierVars, blkVars, metaVars,
                   uriVars, seoVars, navVars, cliVars>>

\* One turn of the per-file loop
BuildFile ==
    /\ buildPc = "files"
    /\ fileIdx <= Len(contentFiles)
    /\ LET file == contentFiles[fileIdx]
           content == ResolveChildren(file, childrenMap)
           processed == processFile(content)
           navWithActive ==
               [i \in 1..Len(navigation) |->
                   [label |-> navigation[i].label, href |-> navigation[i].href,
                    order |-> navigation[i].order,
                    active |-> isActivePath(navigation[i].href, file.relativePath)]]
           title == OrElse(processed.data.title,
                           IF DefaultTitle # "" THEN DefaultTitle ELSE "Untitled")
           pageHtml ==
               renderPage([title |-> <<title>>,
                           description |-> IF IsTruthy(processed.data.description)
                                           THEN <<ToStr(processed.data.description)>>
                                           ELSE <<>>,
                           content |-> MarkdownContent(processed.html, processed.body),
                           frontmatterTitle |-> OrElse(processed.data.title, ""),
                           navigation |-> navWithActive,
                           siteLabels |-> siteLabels,
                           basePath |-> BasePath])
       IN  dist' = WriteFile(dist, JoinOutputDir(processed.outputPath),
                             HtmlFile(pageHtml))
    /\ fileIdx' = fileIdx + 1
    /\ UNCHANGED <<contentFiles, navigation, childrenMap, siteLabels, pageIndex,
                   buildError, buildPc, pathVars, slugVars, tplVars, regVars,
                   hierVars, blkVars, metaVars, uriVars,
                   seoVars, navVars, cliVars>>

\* The calls of one turn of the loop that can throw
ThrowingCalls == {"readFileSync", "processFile", "writeFileSync"}

\* One turn of the per-file loop in which a call throws: nothing in build
\* catches it, the promise build returned rejects with the error
BuildFileThrows ==
    /\ buildPc = "files"
    /\ fileIdx <= Len(contentFiles)
    /\ \E call \in ThrowingCalls :
          buildError' = [thrown |-> TRUE, file |-> fileIdx, at |-> call]
    /\ buildPc' = "failed"
    /\ UNCHANGED <<contentFiles, navigation, childrenMap, siteLabels, fileIdx,
                   pageIndex, dist, pathVars, slugVars, tplVars, regVars, hierVars,
                   blkVars, metaVars, uriVars, seoVars,
                   navVars, cliVars>>

\* The page index written in the middle of the loop
BuildPageIndex_Early ==
    /\ buildPc = "files"
    /\ pageIndex' = generatePageIndex(collectAllPageMetadata(contentFiles))
    /\ dist' = WriteFile(dist, PageIndexPath, JsonFile(pageIndex'))
    /\ buildPc' = "labels"
    /\ UNCHANGED <<contentFiles, navigation, childrenMap, siteLabels, fileIdx,
                   buildError, pathVars, slugVars, tplVars, regVars, hierVars,
                   blkVars, metaVars, uriVars, seoVars,
                   navVars, cliVars>>

\* After the loop: the page index, written as fragments/page-index.json
BuildPageIndex ==
    /\ buildPc = "files"
    /\ fileIdx > Len(contentFiles)
    /\ pageIndex' = generatePageIndex(collectAllPageMetadata(contentFiles))
    /\ dist' = WriteFile(dist, PageIndexPath, JsonFile(pageIndex'))
    /\ buildPc' = "labels"
    /\ UNCHANGED <<contentFiles, navigation, childrenMap, siteLabels, fileIdx,
                   buildError, pathVars, slugVars, tplVars, regVars, hierVars,
                   blkVars, metaVars, uriVars, seoVars,
                   navVars, cliVars>>

\* generateLabelIndexPages
BuildLabelIndexPages ==
    /\ buildPc = "labels"
    /\ dist' = generateLabelIndexPages(dist, pageIndex, navigation, siteLabels)
    /\ buildPc' = "done"
    /\ UNCHANGED <<contentFiles, navigation, childrenMap, siteLabels, fileIdx,
                   pageIndex, buildError, pathVars, slugVars, tplVars, regVars,
                   hierVars, blkVars, metaVars, uriVars,
                   seoVars, navVars, cliVars>>

BuildNext ==
    \/ BuildCollect \/ BuildFile \/ BuildFileThrows
    \/ BuildPageIndex \/ BuildLabelIndexPages

SpecBuild == BuildInit /\ [][BuildNext]_vars

----------------------------------------------------------------------------
(* SpecSite: SiteBuilder.build over content files whose headers name       *)
(* parents, orders, dates and types, some of them unparsable               *)

MaxSitePages == 3

SiteHeader(shortUri, title, type, parent, order, date, labels) ==
    [shortUri |-> shortUri, title |-> title, Title |-> Undefined, type |-> type,
     parent |-> parent, order |-> order, category |-> Undefined,
     labels |-> labels, author |-> Undefined, date |-> date,
     description |-> Undefined, keywords |-> [kind |-> "absent", items |-> <<>>],
     template |-> Undefined]

NoLabels == [kind |-> "absent", items |-> <<>>]

\* The documents a content directory is made of: header and body
SiteDocuments ==
    {[data |-> SiteHeader(Str("home"), Undefined, Undefined, Str("root"), Num(1),
                          Undefined, NoLabels),
      body |-> NoDirective],
     [data |-> SiteHeader(Str("blog"), Undefined, Str("section"), Str("root"),
                          Num(2), Undefined, NoLabels),
      body |-> Directive("date-desc")],
     [data |-> SiteHeader(Str("blog"), Str("T1"), Undefined, Undefined, Undefined,
                          Undefined, NoLabels),
      body |-> Directive("")],
     [data |-> [SiteHeader(Str("post"), Undefined, Str("post"), Str("blog"), Num(1),
                           DateValue(1), [kind |-> "list", items |-> << <<"a">> >>])
                   EXCEPT !.description = Str("A first blog post")],
      body |-> NoDirective],
     [data |-> SiteHeader(Str("about"), Undefined, Undefined, Str("blog"), Num(2),
                          DateValue(2), [kind |-> "list", items |-> << <<"a">> >>]),
      body |-> NoDirective],
     [data |-> SiteHeader(Undefined, Str("T2"), Undefined, Str("blog"), Undefined,
                          Undefined, [kind |-> "scalar", items |-> << <<"b">> >>]),
      body |-> NoDirective],
     [data |-> SiteHeader(Str("x"), Undefined, Str("invalid-type"), Str("root"),
                          Num(1), Undefined,
                          [kind |-> "list", items |-> << <<"b">> >>]),
      body |-> NoDirective],
     [data |-> SiteHeader(Str("about"), Undefined, Undefined, Str("nowhere"),
                          Num(1), Undefined, NoLabels),
      body |-> NoDirective],
     [data |-> SiteHeader(Num(2024), Undefined, Undefined, Str("root"), Undefined,
                          Undefined, NoLabels),
      body |-> Directive("newest")],
     [data |-> SiteHeader(Str("post"), Undefined, Undefined, Num(2024), Num(1),
                          Undefined, NoLabels),
      body |-> NoDirective]}

SiteDirs ==
    UNION {{[i \in 1..n |->
                [relativePath |-> ContentPaths[i], name |-> ContentNames[i],
                 data |-> docs[i].data, body |-> docs[i].body]] :
              docs \in [1..n -> SiteDocuments]} :
              n \in 0..Min(MaxSitePages, Len(ContentPaths))}

SiteInit ==
    /\ contentFiles \in SiteDirs
    /\ navigation = <<>> /\ childrenMap = <<>> /\ siteLabels = <<>>
    /\ fileIdx = 0 /\ pageIndex = <<>> /\ dist = {}
    /\ buildError = NoError
    /\ buildPc = "start"
    /\ PathIdle /\ SlugIdle /\ TplIdle /\ RegIdle /\ HierIdle /\ BlkIdle /\ MetaIdle
    /\ UriIdle /\ SeoIdle /\ NavIdle /\ CliIdle

SpecSite == SiteInit /\ [][BuildNext]_vars

----------------------------------------------------------------------------
(* SpecHier: the hierarchy build over a flat page set                      *)

HierInit ==
    /\ \E ps \in HierPageSets, os \in [1..MaxHierPages -> HierOrders] :
          hierPages = [i \in 1..Len(ps) |->
                          [shortUri |-> ps[i].shortUri, parent |-> ps[i].parent,
                           title |-> ps[i].shortUri, order |-> os[i]]]
    /\ hierChildren = <<>>
    /\ hierIdx = 1
    /\ hierResult = [kind |-> "none"]
    /\ hierPc = "start"
    /\ PathIdle /\ SlugIdle /\ TplIdle /\ RegIdle /\ BuildIdle /\ BlkIdle /\ MetaIdle
    /\ UriIdle /\ SeoIdle /\ NavIdle /\ CliIdle

\* A page's parent does not resolve: the build throws the orphan error
HierThrowOrphan ==
    /\ hierPc = "start"
    /\ \E i \in 1..Len(hierPages) :
          /\ IsOrphan(hierPages, hierPages[i])
          /\ hierResult' = [kind |-> "error", error |-> "orphan",
                            page |-> hierPages[i].shortUri]
    /\ hierPc' = "done"
    /\ UNCHANGED <<hierPages, hierChildren, hierIdx, pathVars, slugVars, tplVars,
                   regVars, buildVars, blkVars,
                   metaVars, uriVars, seoVars, navVars,
                   cliVars>>

\* A page's parent chain runs into a cycle: the build throws the circular
\* reference error
HierThrowCircular ==
    /\ hierPc = "start"
    /\ \E i \in 1..Len(hierPages) :
          /\ ClimbsIntoCycle(hierPages, hierPages[i].shortUri, {})
          /\ hierResult' = [kind |-> "error", error |-> "circular",
                            page |-> hierPages[i].shortUri]
    /\ hierPc' = "done"
    /\ UNCHANGED <<hierPages, hierChildren, hierIdx, pathVars, slugVars, tplVars,
                   regVars, buildVars, blkVars,
                   metaVars, uriVars, seoVars, navVars,
                   cliVars>>

\* The page set is valid: the pages are attached one by one
HierValidated ==
    /\ hierPc = "start"
    /\ \A i \in 1..Len(hierPages) :
          /\ ~IsOrphan(hierPages, hierPages[i])
          /\ ~ClimbsIntoCycle(hierPages, hierPages[i].shortUri, {})
    /\ hierPc' = "attach"
    /\ UNCHANGED <<hierPages, hierChildren, hierIdx, hierResult, pathVars,
                   slugVars, tplVars, regVars, buildVars, blkVars,
                   metaVars, uriVars, seoVars, navVars,
                   cliVars>>

HierAttach ==
    /\ hierPc = "attach"
    /\ hierIdx <= Len(hierPages)
    /\ hierChildren' = AttachChild(hierChildren, hierPages[hierIdx])
    /\ hierIdx' = hierIdx + 1
    /\ UNCHANGED <<hierPages, hierResult, hierPc, pathVars, slugVars, tplVars,
                   regVars, buildVars, blkVars,
                   metaVars, uriVars, seoVars, navVars,
                   cliVars>>

\* The tree is returned: the synthetic root and the children of each node
HierReturn ==
    /\ hierPc = "attach"
    /\ hierIdx > Len(hierPages)
    /\ hierResult' = [kind |-> "tree", root |-> RootUri, children |-> hierChildren]
    /\ hierPc' = "done"
    /\ UNCHANGED <<hierPages, hierChildren, hierIdx, pathVars, slugVars, tplVars,
                   regVars, buildVars, blkVars,
                   metaVars, uriVars, seoVars, navVars,
                   cliVars>>

HierNext ==
    \/ HierThrowOrphan \/ HierThrowCircular \/ HierValidated
    \/ HierAttach \/ HierReturn

SpecHier == HierInit /\ [][HierNext]_vars

----------------------------------------------------------------------------
(* SpecBlocks: protect, compile and restore over a document body           *)

BlkInit ==
    /\ blkBody \in Bodies
    /\ blkMasked = <<>> /\ blkTable = <<>> /\ blkHtml = <<>>
    /\ blkVia = "none"
    /\ blkPc = "start"
    /\ PathIdle /\ SlugIdle /\ TplIdle /\ RegIdle /\ BuildIdle /\ HierIdle /\ MetaIdle
    /\ UriIdle /\ SeoIdle /\ NavIdle /\ CliIdle

BlkProtect ==
    /\ blkPc = "start"
    /\ blkMasked' = extractHtmlBlocks(blkBody).markdown
    /\ blkTable' = extractHtmlBlocks(blkBody).blocks
    /\ blkPc' = "protected"
    /\ UNCHANGED <<blkBody, blkHtml, blkVia, pathVars, slugVars, tplVars, regVars,
                   buildVars, hierVars,
                   metaVars, uriVars, seoVars, navVars,
                   cliVars>>

\* The markup compiler, free to wrap a comment line in a paragraph
BlkCompile ==
    /\ blkPc = "protected"
    /\ \E wraps \in [1..Len(blkMasked) -> BOOLEAN] :
          blkHtml' = compile(blkMasked, wraps)
    /\ blkVia' = "compiled"
    /\ blkPc' = "compiled"
    /\ UNCHANGED <<blkBody, blkMasked, blkTable, pathVars, slugVars, tplVars,
                   regVars, buildVars, hierVars,
                   metaVars, uriVars, seoVars, navVars,
                   cliVars>>

\* Restoring the compiled HTML
BlkRestore ==
    /\ blkPc = "compiled"
    /\ \E all \in BOOLEAN : blkHtml' = restoreHtmlBlocks(blkHtml, blkTable, all)
    /\ blkPc' = "restored"
    /\ UNCHANGED <<blkBody, blkMasked, blkTable, blkVia, pathVars, slugVars,
                   tplVars, regVars, buildVars, hierVars,
                   metaVars, uriVars, seoVars, navVars,
                   cliVars>>

\* Restoring the masked body itself, nothing compiled in between
BlkRestoreDirectly ==
    /\ blkPc = "protected"
    /\ \E all \in BOOLEAN : blkHtml' = restoreHtmlBlocks(blkMasked, blkTable, all)
    /\ blkVia' = "direct"
    /\ blkPc' = "restored"
    /\ UNCHANGED <<blkBody, blkMasked, blkTable, pathVars, slugVars, tplVars,
                   regVars, buildVars, hierVars,
                   metaVars, uriVars, seoVars, navVars,
                   cliVars>>

BlkNext == BlkProtect \/ BlkCompile \/ BlkRestore \/ BlkRestoreDirectly

SpecBlocks == BlkInit /\ [][BlkNext]_vars

----------------------------------------------------------------------------
(* SpecMeta: parsePageMetadata applied to one header                       *)

\* The values the headers give each field
ShortUriValues == {Undefined, Null, Str(""), Num(0), Str("blog")}

TypeValues ==
    {Undefined, Null, Str(""), Str("page"), Str("post"), Str("section"),
     Str("invalid-type"), Num(1)}

ParentValues == {Undefined, Null, Str(""), Str("root"), Str("blog"), List(<<>>)}

OrderValues ==
    {Undefined, Null, Num(10), Num(0), NumAndHalf(1), Str("abc"), Str("2"),
     Str(""), Bool(TRUE), List(<<>>)}

StringArrayValues ==
    {[kind |-> "absent", items |-> <<>>], [kind |-> "null", items |-> <<>>],
     [kind |-> "scalar", items |-> << <<"tutorial">> >>],
     [kind |-> "scalar", items |-> << <<>> >>],
     [kind |-> "list", items |-> << <<"tutorial">>, <<"beginner">> >>]}

TemplateValues == {Undefined, Str(""), Str("blog-post")}

Headers ==
    {[shortUri |-> u, title |-> Undefined, Title |-> Undefined, type |-> t,
      parent |-> p, order |-> o, category |-> Undefined, labels |-> l,
      author |-> Undefined, date |-> Undefined, description |-> Undefined,
      keywords |-> l, template |-> m] :
        u \in ShortUriValues, t \in TypeValues, p \in ParentValues,
        o \in OrderValues, l \in StringArrayValues, m \in TemplateValues}

MetaInit ==
    /\ metaData \in Headers
    /\ metaResult = <<>>
    /\ metaPc = "start"
    /\ PathIdle /\ SlugIdle /\ TplIdle /\ RegIdle /\ BuildIdle /\ HierIdle /\ BlkIdle
    /\ UriIdle /\ SeoIdle /\ NavIdle /\ CliIdle

ParseMetadata ==
    /\ metaPc = "start"
    /\ metaResult' = parsePageMetadata(metaData)
    /\ metaPc' = "done"
    /\ UNCHANGED <<metaData, pathVars, slugVars, tplVars, regVars, buildVars,
                   hierVars, blkVars, uriVars, seoVars,
                   navVars, cliVars>>

MetaNext == ParseMetadata

SpecMeta == MetaInit /\ [][MetaNext]_vars

----------------------------------------------------------------------------
(* SpecUri: generateShortUri (page-metadata.ts), one action per branch and  *)
(* per turn of its while loop                                               *)

\* The decimal digits of a counter, as template literals print a number
RECURSIVE DecimalDigits(_)
DecimalDigits(n) ==
    LET digit == <<"0", "1", "2", "3", "4", "5", "6", "7", "8", "9">>[(n % 10) + 1]
    IN  IF n < 10 THEN <<digit>> ELSE Append(DecimalDigits(n \div 10), digit)

\* `${baseSlug}${counter}`, the hyphen left out (a mutant of Candidate)
Candidate_Unhyphenated(baseSlug, counter) == baseSlug \o DecimalDigits(counter)

\* `${baseSlug}-${counter}`
Candidate(baseSlug, counter) == baseSlug \o <<"-">> \o DecimalDigits(counter)

FirstCounter == 2

TitleChars == {"a", "B", "!"}

MaxTitleLen == 2

UriTitles == SeqsUpTo(TitleChars, MaxTitleLen)

MaxTaken == 2

\* The Short-URIs a site may already hold when a title is given: the title's
\* slug, its first numbered forms, and the slug of another page
UriPool(title) ==
    {generateSlug(title), <<"o">>}
        \cup {generateSlug(title) \o <<"-">> \o DecimalDigits(k) : k \in 2..(MaxTaken + 1)}

UriInit ==
    /\ uriTitle \in UriTitles
    /\ uriExisting \in
           {[given |-> FALSE, uris |-> {}]}
               \cup {[given |-> TRUE, uris |-> s] : s \in SUBSET UriPool(uriTitle)}
    /\ uriBase = <<>> /\ uriCounter = 0 /\ uriCandidate = <<>>
    /\ uriResult = <<>> /\ uriPc = "start"
    /\ PathIdle /\ SlugIdle /\ TplIdle /\ RegIdle /\ BuildIdle /\ HierIdle
    /\ BlkIdle /\ MetaIdle /\ SeoIdle /\ NavIdle /\ CliIdle

\* !existingUris || !existingUris.has(baseSlug): return baseSlug
ReturnBaseSlug ==
    /\ uriPc = "start"
    /\ ~uriExisting.given \/ generateSlug(uriTitle) \notin uriExisting.uris
    /\ uriBase' = generateSlug(uriTitle)
    /\ uriResult' = generateSlug(uriTitle)
    /\ uriPc' = "done"
    /\ UNCHANGED <<uriTitle, uriExisting, uriCounter, uriCandidate, pathVars,
                   slugVars, tplVars, regVars, buildVars, hierVars, blkVars,
                   metaVars, seoVars, navVars, cliVars>>

\* let counter = 2; let candidate = `${baseSlug}-${counter}`
StartCounting ==
    /\ uriPc = "start"
    /\ uriExisting.given /\ generateSlug(uriTitle) \in uriExisting.uris
    /\ uriBase' = generateSlug(uriTitle)
    /\ uriCounter' = FirstCounter
    /\ uriCandidate' = Candidate(generateSlug(uriTitle), FirstCounter)
    /\ uriPc' = "loop"
    /\ UNCHANGED <<uriTitle, uriExisting, uriResult, pathVars, slugVars,
                   tplVars, regVars, buildVars, hierVars, blkVars, metaVars,
                   seoVars, navVars, cliVars>>

\* One turn of while (existingUris.has(candidate))
NextCandidate ==
    /\ uriPc = "loop"
    /\ uriCandidate \in uriExisting.uris
    /\ uriCounter' = uriCounter + 1
    /\ uriCandidate' = Candidate(uriBase, uriCounter + 1)
    /\ UNCHANGED <<uriTitle, uriExisting, uriBase, uriResult, uriPc, pathVars,
                   slugVars, tplVars, regVars, buildVars, hierVars, blkVars,
                   metaVars, seoVars, navVars, cliVars>>

\* The loop's exit: return candidate
ReturnCandidate ==
    /\ uriPc = "loop"
    /\ uriCandidate \notin uriExisting.uris
    /\ uriResult' = uriCandidate
    /\ uriPc' = "done"
    /\ UNCHANGED <<uriTitle, uriExisting, uriBase, uriCounter, uriCandidate,
                   pathVars, slugVars, tplVars, regVars, buildVars, hierVars,
                   blkVars, metaVars, seoVars, navVars,
                   cliVars>>

UriNext == ReturnBaseSlug \/ StartCounting \/ NextCandidate \/ ReturnCandidate

SpecUri == UriInit /\ [][UriNext]_vars

\* The call runs to its return: no other code runs between two of its steps
SpecUriLive == SpecUri /\ WF_vars(UriNext)

----------------------------------------------------------------------------
(* SpecSeo: generateSitemap (seo.ts).  A string is the sequence of its     *)
(* parts: a tag, a line break, a run of blanks, a slash, a name.           *)

\* siteUrl.replace(/\/+$/, '')
RECURSIVE StripTrailingSlashes(_)
StripTrailingSlashes(s) ==
    IF s # <<>> /\ s[Len(s)] = "/"
    THEN StripTrailingSlashes(SubSeq(s, 1, Len(s) - 1))
    ELSE s

\* `${basePath}/label/`
LabelPrefix(basePath) == basePath \o <<"/", "label", "/">>

\* The filter that keeps every entry (a mutant of IsSitemapPage)
IsSitemapPage_All(p, basePath) == TRUE

\* p => !p.url.startsWith(labelPrefix)
IsSitemapPage(p, basePath) == ~StartsWith(p.url, LabelPrefix(basePath))

\* Array.prototype.join
RECURSIVE JoinStrings(_, _)
JoinStrings(parts, sep) ==
    IF parts = <<>> THEN <<>>
    ELSE IF Len(parts) = 1 THEN Head(parts)
    ELSE Head(parts) \o sep \o JoinStrings(Tail(parts), sep)

\* page.date ? ... : '' -- a date is null or a string, the empty one falsy
HasDate(page) == page.date # <<"null">> /\ page.date # <<>>

\* The string the map callback returns for one page
UrlElement(page, cleanUrl) ==
    LET lastmod == IF HasDate(page)
                   THEN <<"\n", "    ", "<lastmod>">> \o page.date \o <<"</lastmod>">>
                   ELSE <<>>
    IN  <<"  ", "<url>", "\n", "    ", "<loc>">> \o cleanUrl \o page.url
            \o <<"</loc>">> \o lastmod \o <<"\n", "  ", "</url>">>

generateSitemap(pages, siteUrl, basePath) ==
    LET cleanUrl == StripTrailingSlashes(siteUrl)
        kept == SelectSeq(pages, LAMBDA p : IsSitemapPage(p, basePath))
        urls == JoinStrings([i \in 1..Len(kept) |-> UrlElement(kept[i], cleanUrl)],
                            <<"\n">>)
    IN  JoinStrings(<< <<"<?xml?>">>, <<"<urlset>">>, urls, <<"</urlset>">>, <<>> >>,
                    <<"\n">>)

\* The entries of a page index: the home page, a page, label-listing pages
\* with and without a base path, and a page whose own name is 'label'
SitemapUrls ==
    {<<"/">>, <<"/", "about">>, <<"/", "label", "/", "htmx">>, <<"/", "label">>,
     <<"/", "Flint", "/", "about">>, <<"/", "Flint", "/", "label", "/", "htmx">>}

SitemapDates == {<<"null">>, <<"2024-01-20">>}

SitemapEntries == [url : SitemapUrls, date : SitemapDates]

MaxSitemapPages == 2

SiteUrls ==
    {<<"https://example.com">>, <<"https://example.com", "/">>,
     <<"https://example.com", "/", "/">>}

SeoInit ==
    /\ seoPages \in SeqsUpTo(SitemapEntries, MaxSitemapPages)
    /\ seoSiteUrl \in SiteUrls
    /\ seoBasePath \in {<<>>, <<"/", "Flint">>}
    /\ seoXml = <<>>
    /\ seoPc = "start"
    /\ PathIdle /\ SlugIdle /\ TplIdle /\ RegIdle /\ BuildIdle /\ HierIdle
    /\ BlkIdle /\ MetaIdle /\ UriIdle /\ NavIdle /\ CliIdle

GenerateSitemap ==
    /\ seoPc = "start"
    /\ seoXml' = generateSitemap(seoPages, seoSiteUrl, seoBasePath)
    /\ seoPc' = "done"
    /\ UNCHANGED <<seoPages, seoSiteUrl, seoBasePath, pathVars, slugVars,
                   tplVars, regVars, buildVars, hierVars, blkVars, metaVars,
                   uriVars, navVars, cliVars>>

SeoNext == GenerateSitemap

SpecSeo == SeoInit /\ [][SeoNext]_vars

----------------------------------------------------------------------------
(* SpecNav: the active flag build gives one navigation item on one page    *)

\* Relative paths of content files.  A name is split where another name
\* ends, so that 'about' is a string prefix of 'about-us'.
NavPaths ==
    {<<"index", ".", "md">>, <<"about", ".", "md">>, <<"about", "-us", ".", "md">>,
     <<"about", "/", "team", ".", "md">>, <<"about", "/", "index", ".", "md">>,
     <<"blog", "/", "index", ".", "md">>, <<"blog", "/", "post", ".", "md">>,
     <<"blog", "\\", "post", ".", "md">>, <<"index", "/", "index", ".", "md">>,
     <<"index", "/", "a", ".", "md">>, <<".", "md">>}

NavInit ==
    /\ navItemFile \in NavPaths
    /\ navFile \in NavPaths
    /\ navHref = <<>>
    /\ navActive = FALSE
    /\ navPc = "start"
    /\ PathIdle /\ SlugIdle /\ TplIdle /\ RegIdle /\ BuildIdle /\ HierIdle
    /\ BlkIdle /\ MetaIdle /\ UriIdle /\ SeoIdle /\ CliIdle

\* generateNavigation's href for the item, and navWithActive's flag for it
\* while file is rendered
MarkNavItem ==
    /\ navPc = "start"
    /\ navHref' = getUrlPath(navItemFile)
    /\ navActive' = isActivePath(getUrlPath(navItemFile), navFile)
    /\ navPc' = "done"
    /\ UNCHANGED <<navItemFile, navFile, pathVars, slugVars, tplVars, regVars,
                   buildVars, hierVars, blkVars, metaVars, uriVars, seoVars,
                   cliVars>>

NavNext == MarkNavItem

SpecNav == NavInit /\ [][NavNext]_vars

----------------------------------------------------------------------------
(* SpecClient: the label router of the browser bundle during one page load.*)
(* A click runs the handler up to its first await; a response and a parsed *)
(* body each resume one waiting call, which then runs to its return.       *)

\* index.filter(entry => entry.labels.includes(label))
MatchesOf(index, label) ==
    SelectSeq(index, LAMBDA entry : \E i \in 1..Len(entry.labels) : entry.labels[i] = label)

\* The href handleLabelClick assigns for its matches, <<>> when it assigns none
LabelClickTarget(index, label) ==
    LET matches == MatchesOf(index, label)
    IN  IF Len(matches) = 1 THEN matches[1].url
        ELSE IF Len(matches) > 1
             THEN BasePath \o <<"/", "label", "/">> \o labelSlug(label)
        ELSE <<>>

\* handleLabelClick after `await getPageIndex()`, to its return
AfterIndex(label, index) ==
    /\ cliLast' = [ran |-> TRUE, label |-> label, index |-> index,
                   href |-> LabelClickTarget(index, label)]
    /\ cliLocation' = IF LabelClickTarget(index, label) # <<>>
                      THEN LabelClickTarget(index, label) ELSE cliLocation

RemoveAt(s, i) == SubSeq(s, 1, i - 1) \o SubSeq(s, i + 1, Len(s))

\* The labels of the links a page shows, one of them on no page
ClickedLabels == {<<"a">>, <<"b">>, <<"B">>, <<"!">>}

ServedLabelLists ==
    {<<>>, << <<"a">> >>, << <<"a">>, <<"B">> >>, << <<"b">>, <<"B">> >>,
     << <<"a">>, <<"a">> >>, << <<"!">> >>}

PageIndexEntry(i, labels) ==
    [url |-> <<"/", <<"about", "blog", "docs", "faq">>[i]>>,
     title |-> <<"T1", "T2", "T3", "T4">>[i], description |-> "",
     labels |-> labels, category |-> "", date |-> NullDate]

MaxIndexEntries == 2

MaxClicks == 2

ServedIndexes ==
    UNION {{[i \in 1..n |-> PageIndexEntry(i, ls[i])] : ls \in [1..n -> ServedLabelLists]} :
              n \in 0..MaxIndexEntries}

ClientInit ==
    /\ cliServed \in ServedIndexes
    /\ pageIndexCache = NotCached
    /\ cliCalls = <<>>
    /\ cliRequests = 0
    /\ cliClicks = 0
    /\ cliLast = NoCall
    /\ cliLocation = <<"here">>
    /\ PathIdle /\ SlugIdle /\ TplIdle /\ RegIdle /\ BuildIdle /\ HierIdle
    /\ BlkIdle /\ MetaIdle /\ UriIdle /\ SeoIdle /\ NavIdle

\* The page is still shown: no href has been assigned
OnPage == cliLocation = <<"here">>

\* A click on a label link while pageIndexCache is set: getPageIndex returns
\* the cache and handleLabelClick runs to its end
ClickWithCache ==
    \E label \in ClickedLabels :
        /\ OnPage /\ cliClicks < MaxClicks
        /\ pageIndexCache.cached
        /\ cliClicks' = cliClicks + 1
        /\ AfterIndex(label, pageIndexCache.index)
        /\ UNCHANGED <<cliServed, pageIndexCache, cliCalls, cliRequests,
                       pathVars, slugVars, tplVars, regVars, buildVars,
                       hierVars, blkVars, metaVars, uriVars, seoVars, navVars>>

\* A click while pageIndexCache is null: getPageIndex calls fetch and waits
ClickAndFetch ==
    \E label \in ClickedLabels :
        /\ OnPage /\ cliClicks < MaxClicks
        /\ ~pageIndexCache.cached
        /\ cliClicks' = cliClicks + 1
        /\ cliRequests' = cliRequests + 1
        /\ cliCalls' = Append(cliCalls, [label |-> label, at |-> "fetch"])
        /\ UNCHANGED <<cliServed, pageIndexCache, cliLast, cliLocation,
                       pathVars, slugVars, tplVars, regVars, buildVars,
                       hierVars, blkVars, metaVars, uriVars, seoVars, navVars>>

\* A response with ok set arrives: the call goes on to await response.json()
ResponseOk ==
    \E i \in 1..Len(cliCalls) :
        /\ OnPage
        /\ cliCalls[i].at = "fetch"
        /\ cliCalls' = [cliCalls EXCEPT ![i].at = "json"]
        /\ UNCHANGED <<cliServed, pageIndexCache, cliRequests, cliClicks,
                       cliLast, cliLocation, pathVars, slugVars, tplVars,
                       regVars, buildVars, hierVars, blkVars, metaVars,
                       uriVars, seoVars, navVars>>

\* A response without ok arrives: getPageIndex returns [] and caches nothing
ResponseNotOk ==
    \E i \in 1..Len(cliCalls) :
        /\ OnPage
        /\ cliCalls[i].at = "fetch"
        /\ cliCalls' = RemoveAt(cliCalls, i)
        /\ AfterIndex(cliCalls[i].label, <<>>)
        /\ UNCHANGED <<cliServed, pageIndexCache, cliRequests, cliClicks,
                       pathVars, slugVars, tplVars, regVars, buildVars,
                       hierVars, blkVars, metaVars, uriVars, seoVars, navVars>>

\* The body is parsed: pageIndexCache is set and the call runs to its end
BodyParsed ==
    \E i \in 1..Len(cliCalls) :
        /\ OnPage
        /\ cliCalls[i].at = "json"
        /\ pageIndexCache' = [cached |-> TRUE, index |-> cliServed]
        /\ cliCalls' = RemoveAt(cliCalls, i)
        /\ AfterIndex(cliCalls[i].label, cliServed)
        /\ UNCHANGED <<cliServed, cliRequests, cliClicks, pathVars, slugVars,
                       tplVars, regVars, buildVars, hierVars, blkVars,
                       metaVars, uriVars, seoVars, navVars>>

ClientNext ==
    \/ ClickWithCache \/ ClickAndFetch
    \/ ResponseOk \/ ResponseNotOk \/ BodyParsed

SpecClient == ClientInit /\ [][ClientNext]_vars

----------------------------------------------------------------------------
(* SpecTree: SiteBuilder.build over content directories that differ in the  *)
(* files they hold; every file has a plain header of its own                *)

\* The files a content directory may hold, in the order scanContent lists
\* them
TreePaths ==
    << <<"about", ".", "md">>, <<"blog", "/", "index", ".", "md">>,
       <<"blog", "/", "post", ".", "md">>, <<"blog", ".", "md">>,
       <<"index", ".", "md">> >>

TreeNames == <<"about.md", "index.md", "post.md", "blog.md", "index.md">>

TreeUris == <<"about", "blog", "post", "journal", "home">>

TreeTitles == <<"T1", "T2", "T3", "T4", "T5">>

TreeFile(i) ==
    [relativePath |-> TreePaths[i], name |-> TreeNames[i],
     data |-> SiteHeader(Str(TreeUris[i]), Str(TreeTitles[i]), Undefined,
                         Str("root"), Num(i), Undefined, NoLabels),
     body |-> NoDirective]

MaxTreeFiles == 3

\* The files at the chosen positions, in scan order
RECURSIVE TreeFiles(_, _)
TreeFiles(chosen, i) ==
    IF i > Len(TreePaths) THEN <<>>
    ELSE (IF i \in chosen THEN <<TreeFile(i)>> ELSE <<>>) \o TreeFiles(chosen, i + 1)

TreeDirs ==
    {TreeFiles(chosen, 1) :
        chosen \in {c \in SUBSET (1..Len(TreePaths)) : Cardinality(c) <= MaxTreeFiles}}

TreeInit ==
    /\ contentFiles \in TreeDirs
    /\ navigation = <<>> /\ childrenMap = <<>> /\ siteLabels = <<>>
    /\ fileIdx = 0 /\ pageIndex = <<>> /\ dist = {}
    /\ buildError = NoError
    /\ buildPc = "start"
    /\ PathIdle /\ SlugIdle /\ TplIdle /\ RegIdle /\ HierIdle /\ BlkIdle
    /\ MetaIdle /\ UriIdle /\ SeoIdle /\ NavIdle /\ CliIdle

SpecTree == TreeInit /\ [][BuildNext]_vars

----------------------------------------------------------------------------
(* C1                                                                      *)

\* The last path segment (the file's name)
RECURSIVE LastSlash(_, _)
LastSlash(s, i) == IF i = 0 \/ s[i] = "/" THEN i ELSE LastSlash(s, i - 1)

BaseName(s) == SubSeq(s, LastSlash(s, Len(s)) + 1, Len(s))

\* What C1 states for a base: <base>.html for an index, <base>/index.html
\* otherwise.
ClaimedOutput(base) ==
    IF base = <<"index">> \/ EndsWith(base, <<"/", "index">>)
    THEN base \o HtmlSuffix
    ELSE base \o IndexHtml

\* "Strips the extension", read either as Node's extname of the path or as
\* the '.md' suffix every scanned file has.
StripExtname(p) == ReplaceBackslashes(SubSeq(p, 1, Len(p) - Len(extname(p))))

StripMd(p) == ReplaceBackslashes(SubSeq(p, 1, Len(p) - Len(MdSuffix)))

\* C1: for every source relative path, getOutputPath strips the extension and
\* returns <base>.html when the base is 'index' or ends in '/index', and
\* <base>/index.html otherwise.
C1_OutputPathContract ==
    pathPc = "done" =>
        outPath \in {ClaimedOutput(StripExtname(relPath)),
                     ClaimedOutput(StripMd(relPath))}

\* The four paths C1 names, and the outputs it names for them.
C1_Examples ==
    /\ getOutputPath(<<"a", ".", "md">>) = <<"a", "/", "index", ".", "html">>
    /\ getOutputPath(<<"blog", "/", "index", ".", "md">>)
          = <<"blog", "/", "index", ".", "html">>
    /\ getOutputPath(<<"blog", "/", "a", ".", "md">>)
          = <<"blog", "/", "a", "/", "index", ".", "html">>
    /\ getOutputPath(<<"blog", "/", "blog", "/", "index", ".", "md">>)
          = <<"blog", "/", "blog", "/", "index", ".", "html">>

----------------------------------------------------------------------------
(* C2: the label listing pages a build leaves                              *)

\* The pages of the page index that carry a label
Carriers(label) ==
    {i \in 1..Len(pageIndex) :
        \E j \in 1..Len(pageIndex[i].labels) : pageIndex[i].labels[j] = label}

IndexLabels ==
    UNION {{pageIndex[i].labels[j] : j \in 1..Len(pageIndex[i].labels)} :
              i \in 1..Len(pageIndex)}

FilesAt(path) == {f \in dist : f.path = path}

\* A listing page that lists the title of every page carrying the label
ListsCarriers(f, label) ==
    /\ f.data.kind = "html"
    /\ f.data.page.main.kind = "label-index"
    /\ \A i \in Carriers(label) :
          \E k \in 1..Len(f.data.page.main.pages) :
              f.data.page.main.pages[k].title = pageIndex[i].title

\* C2: after build a listing page exists at label/<slug(label)>/index.html
\* exactly for the labels carried by two or more pages of the page index, it
\* lists the title of every page carrying the label, and a label carried by
\* one page has no listing page.
C2_LabelPagesForSharedLabels ==
    buildPc = "done" =>
        \A label \in IndexLabels :
            LET files == FilesAt(LabelIndexPath(generateLabelSlug(label)))
                shared == Cardinality(Carriers(label)) >= MinLabelPages
            IN  /\ files # {} <=> shared
                /\ shared => \A f \in files : ListsCarriers(f, label)

\* No page names a label twice and no two labels of the index have one slug
PlainLabels ==
    /\ \A i \in 1..Len(pageIndex) :
          \A j, k \in 1..Len(pageIndex[i].labels) :
              pageIndex[i].labels[j] = pageIndex[i].labels[k] => j = k
    /\ \A l1, l2 \in IndexLabels :
          generateLabelSlug(l1) = generateLabelSlug(l2) => l1 = l2

\* The same for the builds with plain labels
C2_PlainLabels ==
    (buildPc = "done" /\ PlainLabels) =>
        \A label \in IndexLabels :
            LET files == FilesAt(LabelIndexPath(generateLabelSlug(label)))
                shared == Cardinality(Carriers(label)) >= MinLabelPages
            IN  /\ files # {} <=> shared
                /\ shared => \A f \in files : ListsCarriers(f, label)

----------------------------------------------------------------------------
(* C3                                                                      *)

\* A slug: only [a-z0-9-], no leading, trailing or doubled hyphen
WellFormedSlug(s) ==
    /\ \A i \in 1..Len(s) : IsLowerAlnum(s[i]) \/ s[i] = "-"
    /\ s # <<>> => s[1] # "-" /\ s[Len(s)] # "-"
    /\ \A i \in 1..(Len(s) - 1) : ~(s[i] = "-" /\ s[i + 1] = "-")

\* C3: the client-side labelSlug and the build-time slug functions return the
\* same slug for every label text, and that slug contains only [a-z0-9-] with
\* no leading, trailing or doubled hyphen.
C3_SlugsAgree ==
    slugPc = "done" =>
        /\ slugClient = slugMeta
        /\ slugClient = slugBuild
        /\ WellFormedSlug(slugClient)

\* A text with upper case, leading blanks, a run of several characters
\* outside [a-z0-9] and a trailing symbol has been slugged.
C3_Witness ==
    /\ slugPc = "done"
    /\ slugText = <<" ", "B", "!">>
    /\ slugClient = <<"b">>


----------------------------------------------------------------------------
(* C4, C5: the tree or the error of the hierarchy build                    *)

PageUris == {hierPages[i].shortUri : i \in 1..Len(hierPages)}

\* The parent reference of a page followed once; the root and a name no
\* page has lead nowhere
ParentStep(uri) ==
    IF \E i \in 1..Len(hierPages) : hierPages[i].shortUri = uri
    THEN (CHOOSE pg \in {hierPages[i] : i \in 1..Len(hierPages)} :
              pg.shortUri = uri).parent
    ELSE uri

RECURSIVE Ancestor(_, _)
Ancestor(uri, k) == IF k = 0 THEN uri ELSE Ancestor(ParentStep(uri), k - 1)

\* The page set contains a cycle of parent references
HasCycle ==
    \E uri \in PageUris : \E k \in 1..Len(hierPages) : Ancestor(uri, k) = uri

\* The parent of the page is neither "root" nor an existing shortUri
Unresolved(page) == page.parent # "root" /\ page.parent \notin PageUris

HasOrphan == \E i \in 1..Len(hierPages) : Unresolved(hierPages[i])

\* The places of a page in the tree: the node and the position under it
Places(uri) ==
    {<<k, j>> \in (1..Len(hierResult.children)) \X (1..Len(hierPages)) :
        /\ j <= Len(hierResult.children[k].value)
        /\ hierResult.children[k].value[j].shortUri = uri}

\* The nodes within k levels under the given nodes
RECURSIVE Under(_, _)
Under(nodes, k) ==
    IF k = 0 THEN nodes
    ELSE Under(nodes \cup
               {hierResult.children[i].value[j].shortUri :
                   <<i, j>> \in {<<i, j>> \in (1..Len(hierResult.children))
                                               \X (1..Len(hierPages)) :
                                    /\ hierResult.children[i].key \in nodes
                                    /\ j <= Len(hierResult.children[i].value)}},
               k - 1)

----------------------------------------------------------------------------
(* C6: the round trip of the raw HTML blocks                               *)

\* pat occurs in s
Contains(s, pat) ==
    \/ pat = <<>>
    \/ \E i \in 1..(Len(s) - Len(pat) + 1) : SubSeq(s, i, i + Len(pat) - 1) = pat

\* The body without the fence lines of its blocks
RECURSIVE WithoutFences(_, _)
WithoutFences(s, i) ==
    IF i > Len(s) THEN <<>>
    ELSE IF s[i] = ":::html" /\ \E c \in (i + 1)..Len(s) : s[c] = ":::"
    THEN LET c == CHOOSE c \in (i + 1)..Len(s) :
                      s[c] = ":::" /\ \A d \in (i + 1)..(c - 1) : s[d] # ":::"
         IN  SubSeq(s, i + 1, c - 1) \o WithoutFences(s, c + 1)
    ELSE <<s[i]>> \o WithoutFences(s, i + 1)

\* C6: for every body, protecting the fenced blocks (each replaced by the
\* placeholder of the next index), compiling and restoring gives HTML that
\* holds every block's content verbatim, no placeholder of the table and no
\* paragraph wrapper directly around a restored block; protecting and
\* restoring directly gives the body without the fence lines.
C6_BlocksRestored ==
    /\ blkPc # "start" /\ blkPc # "idle" =>
          \A k \in 1..Len(blkTable) : blkTable[k].key = PlaceholderNames[k]
    /\ blkPc = "restored" =>
          /\ \A k \in 1..Len(blkTable) :
                /\ Contains(blkHtml, blkTable[k].value)
                /\ ~Contains(blkHtml, <<blkTable[k].key>>)
                /\ (blkTable[k].value # <<>> /\ blkTable[k].value[1] = "<div>") =>
                      ~Contains(blkHtml, <<"<p>">> \o blkTable[k].value)
          /\ blkVia = "direct" => blkHtml = WithoutFences(blkBody, 1)

\* The body holds no line that reads like a placeholder
NoPlaceholderText ==
    \A i \in 1..Len(blkBody) : \A n \in 1..Len(PlaceholderNames) :
        blkBody[i] # PlaceholderNames[n]

\* The same for the bodies without such a line
C6_NoPlaceholderText ==
    NoPlaceholderText =>
        /\ blkPc # "start" /\ blkPc # "idle" =>
              \A k \in 1..Len(blkTable) : blkTable[k].key = PlaceholderNames[k]
        /\ blkPc = "restored" =>
              /\ \A k \in 1..Len(blkTable) :
                    /\ Contains(blkHtml, blkTable[k].value)
                    /\ ~Contains(blkHtml, <<blkTable[k].key>>)
                    /\ (blkTable[k].value # <<>> /\ blkTable[k].value[1] = "<div>") =>
                          ~Contains(blkHtml, <<"<p>">> \o blkTable[k].value)
              /\ blkVia = "direct" => blkHtml = WithoutFences(blkBody, 1)

----------------------------------------------------------------------------
(* C7, C8, C9: what processTemplate makes of a template, told from the     *)
(* segments the template was written from                                  *)

Truthy(n, ctx) == resolveTag(<<n>>, ctx) # <<>>

\* A segment once the conditionals are resolved: a kept block leaves its
\* body as written, a dropped block leaves nothing
SegAfterConditionals(seg, ctx) ==
    IF seg.kind = "if"
    THEN IF Truthy(seg.name, ctx) THEN SegText(seg.body) ELSE <<>>
    ELSE SegText(seg)

\* A segment in the output
SegRendered(seg, ctx) ==
    CASE seg.kind = "text" -> <<"X">>
      [] seg.kind = "tag" -> resolveTag(<<seg.name>>, ctx)
      [] seg.kind = "if" ->
            IF ~Truthy(seg.name, ctx) THEN <<>>
            ELSE IF seg.body.kind = "text" THEN <<"X">>
            ELSE resolveTag(<<seg.body.name>>, ctx)

\* C7: processTemplate resolves the {{#if name}}...{{/if}} blocks first and
\* replaces the {{name}} placeholders afterwards: after the first step every
\* kept block is its body with the placeholder still unexpanded and every
\* dropped block is gone, and after the second step the placeholder of a kept
\* block is expanded and nothing of a dropped block is in the output.
C7_ConditionalsThenPlaceholders ==
    /\ tplPc = "conds" =>
          tplText = Flatten([i \in 1..Len(tplSegs) |->
                                SegAfterConditionals(tplSegs[i], tplCtx)])
    /\ tplPc = "done" =>
          tplText = Flatten([i \in 1..Len(tplSegs) |->
                                SegRendered(tplSegs[i], tplCtx)])

\* A kept block's placeholder is still a placeholder between the two steps
C7_Witness ==
    /\ tplPc = "conds"
    /\ tplSegs = <<IfSeg("title", TagSeg("content")), IfSeg("label-footer", TagSeg("title"))>>
    /\ tplCtx = Context(<<"T">>, <<OPEN, "/if", CLOSE>>, <<>>)
    /\ tplText = <<OPEN, "content", CLOSE>>

AllTagNames == KnownTags \cup {"zz", "Title", "/if"}

\* C8: {{#if name}}X{{/if}} renders X when resolveTag(name, ctx) is not empty
\* and the empty string when it is, for every tag name and context; with
\* label-footer that is X exactly when the context has site labels.
C8_IfRendersBlockIffTruthy ==
    /\ tplPc = "done" =>
          \A n \in AllTagNames :
              processTemplate(SegText(IfSeg(n, TextSeg)), tplCtx)
                  = IF resolveTag(<<n>>, tplCtx) # <<>> THEN <<"X">> ELSE <<>>
    /\ (tplPc = "done" /\ Len(tplSegs) = 1 /\ tplSegs[1].kind = "if"
            /\ tplSegs[1].body = TextSeg) =>
          tplText = IF resolveTag(<<tplSegs[1].name>>, tplCtx) # <<>>
                    THEN <<"X">> ELSE <<>>
    /\ (tplPc = "done" /\ tplSegs = <<IfSeg("label-footer", TextSeg)>>) =>
          tplText = IF Len(tplCtx.siteLabels) > 0 THEN <<"X">> ELSE <<>>

\* The label-footer block dropped for a site without labels
C8_Witness ==
    /\ tplPc = "done"
    /\ tplSegs = <<IfSeg("label-footer", TextSeg)>>
    /\ tplCtx.siteLabels = <<>>
    /\ tplText = <<>>

UnknownNames == {"zz", "Title", "#if", "/if", "label_footer"}

\* C9: resolveTag gives every name that is not a known tag back as the
\* literal {{name}}, and processTemplate leaves such a placeholder as written.
C9_UnknownTagsVerbatim ==
    /\ tplPc = "done" =>
          /\ \A n \in UnknownNames :
                /\ resolveTag(<<n>>, tplCtx) = <<OPEN, n, CLOSE>>
                /\ processTemplate(<<"X", OPEN, n, CLOSE, "X">>, tplCtx)
                      = <<"X", OPEN, n, CLOSE, "X">>
          /\ \A n \in KnownTags : resolveTag(<<n>>, tplCtx) \in Seq(STRING)
    /\ (tplPc = "done" /\ \A i \in 1..Len(tplSegs) : tplSegs[i] = TagSeg("zz")) =>
          tplText = TemplateText(tplSegs)

\* Two unknown placeholders in a row, both left as written
C9_Witness ==
    /\ tplPc = "done"
    /\ tplSegs = <<TagSeg("zz"), TagSeg("zz")>>
    /\ tplText = <<OPEN, "zz", CLOSE, OPEN, "zz", CLOSE>>

----------------------------------------------------------------------------
(* C10: render and the registered names                                    *)

\* C10: render(name, ctx) fails, with an error that names the template and
\* lists the registered names, exactly when name is not registered; for a
\* registered name, whatever its body, it returns processTemplate of the body.
C10_RenderFailsIffUnregistered ==
    rendered.kind # "idle" =>
        LET reg == rendered.at
            name == rendered.name
        IN  /\ rendered.kind = "error" <=> ~MapHas(reg, name)
            /\ rendered.kind = "error" =>
                  rendered.template = name /\ rendered.available = MapKeys(reg)
            /\ MapHas(reg, name) =>
                  /\ rendered.kind = "ok"
                  /\ rendered.html = processTemplate(MapGet(reg, name).value, regCtx)

\* The same for the templates whose body is not empty
C10_NonEmptyBodies ==
    (rendered.kind # "idle"
        /\ MapGet(rendered.at, rendered.name) # [defined |-> TRUE, value |-> <<>>]) =>
        LET reg == rendered.at
            name == rendered.name
        IN  /\ rendered.kind = "error" <=> ~MapHas(reg, name)
            /\ rendered.kind = "error" =>
                  rendered.template = name /\ rendered.available = MapKeys(reg)
            /\ MapHas(reg, name) =>
                  /\ rendered.kind = "ok"
                  /\ rendered.html = processTemplate(MapGet(reg, name).value, regCtx)

----------------------------------------------------------------------------
(* C11: names, get and has after a sequence of register calls              *)

\* The names registered, each once, in the order of its first registration
RECURSIVE FirstRegistrations(_)
FirstRegistrations(calls) ==
    IF calls = <<>> THEN <<>>
    ELSE LET before == FirstRegistrations(SubSeq(calls, 1, Len(calls) - 1))
             name == calls[Len(calls)].name
         IN  IF \E i \in 1..Len(before) : before[i] = name THEN before
             ELSE Append(before, name)

\* The position of the most recent register call of a name, 0 if there is none
LastRegistration(calls, name) ==
    IF \E i \in 1..Len(calls) : calls[i].name = name
    THEN CHOOSE i \in 1..Len(calls) :
             /\ calls[i].name = name
             /\ \A j \in (i + 1)..Len(calls) : calls[j].name # name
    ELSE 0

\* C11: after any sequence of register calls, names() lists each registered
\* name once, in the order of its first registration; get(name) is the body
\* the most recent register of that name gave, undefined for a name never
\* registered; has(name) is true exactly for the registered names.
C11_RegistryContract ==
    /\ names = FirstRegistrations(regCalls)
    /\ \A i, j \in 1..Len(names) : names[i] = names[j] => i = j
    /\ \A name \in RenderedNames :
          LET last == LastRegistration(regCalls, name)
          IN  /\ has(name) <=> last # 0
              /\ get(name) = IF last = 0 THEN [defined |-> FALSE]
                              ELSE [defined |-> TRUE,
                                    value |-> regCalls[last].templateHtml]

\* A name registered first, another after it, the first registered again
\* with another body
C11_Witness ==
    /\ Len(regCalls) = 3
    /\ regCalls[1].name = "blog" /\ regCalls[2].name = "default"
    /\ regCalls[3].name = "blog"
    /\ regCalls[3].templateHtml # regCalls[1].templateHtml
    /\ names = <<"blog", "default">>
    /\ get("blog").value = regCalls[3].templateHtml
    /\ ~has("landing")

----------------------------------------------------------------------------
(* C19, C20: the record parsePageMetadata returns, and its two errors      *)

\* A header value that is no number: neither a number nor a decimal numeral
NonNumeric(v) ==
    /\ v.kind \notin {"undefined", "null", "number"}
    /\ ~(v.kind = "string" /\ v.s \in {"1", "2"})

DefaultedOrder == [nan |-> FALSE, n |-> 999, half |-> FALSE]

\* A scalar Labels or Keywords value became the list of that one value
OneElementList(value, list) ==
    value.kind = "scalar" => list = <<value.items[1]>>

\* C19: parsePageMetadata maps an absent, null or empty Parent to "root", an
\* absent or non-numeric Order to 999, an absent Template to "default", a
\* scalar Labels or Keywords value to a one-element list; in every record
\* returned parent is not empty and order is an integer.
C19_Defaults ==
    (metaPc = "done" /\ metaResult.ok) =>
        /\ metaData.parent \in {Undefined, Null, Str("")} => metaResult.parent = "root"
        /\ (metaData.order = Undefined \/ NonNumeric(metaData.order)) =>
              metaResult.order = DefaultedOrder
        /\ metaData.template = Undefined => metaResult.template = "default"
        /\ OneElementList(metaData.labels, metaResult.labels)
        /\ OneElementList(metaData.keywords, metaResult.keywords)
        /\ metaResult.parent # ""
        /\ ~metaResult.order.nan /\ ~metaResult.order.half

\* The headers whose Order is absent, null, an integer or a word, whose
\* Parent is no list and whose scalar lists are not empty
PlainHeader ==
    /\ metaData.order \in {Undefined, Null, Num(10), Num(0), Str("abc"), Str("2")}
    /\ metaData.parent.kind # "list"
    /\ metaData.labels # [kind |-> "scalar", items |-> << <<>> >>]

\* C19 holds for those headers
C19_PlainHeaders == PlainHeader => C19_Defaults

\* Short-URI and Type as the claim names them: a Short-URI is missing when
\* the header gives no value for it, a Type is present when it gives one
NoShortUri == metaData.shortUri \in {Undefined, Null}

TypePresent == metaData.type \notin {Undefined, Null}

TypeNamed == metaData.type \in {Str("page"), Str("post"), Str("section")}

Blank(v) == v \in {Undefined, Null, Str(""), Num(0)}

----------------------------------------------------------------------------
(* C18: getOutputPath applied to its own output                            *)

\* C18: for every source path p, getOutputPath applied to getOutputPath(p)
\* without its trailing '.html' and a trailing '/index' is getOutputPath(p)
\* again.
C18_StableUnderReapplication ==
    pathPc = "again" => outAgain = outPath

\* The paths below no directory named index whose file name is a word and
\* '.md'
PlainPath ==
    /\ \A i \in 1..Len(relPath) : relPath[i] \notin {"\\", "index"} \/ i = Len(relPath) - 2
    /\ Len(relPath) >= 3 /\ relPath[Len(relPath) - 2] \in {"a", "index"}
    /\ Len(relPath) = 3 \/ relPath[Len(relPath) - 3] = "/"

\* For those paths the stripped output, given the extension back, maps to
\* the same output
C18_WithExtension ==
    (pathPc = "again" /\ PlainPath) =>
        getOutputPath(StripHtmlAndIndex(outPath) \o MdSuffix) = outPath

----------------------------------------------------------------------------
(* C12..C16: a build over documents with parents, orders and bad headers   *)

Docs == 1..Len(contentFiles)

\* What the headers say, read off the header itself
Parses(i) ==
    /\ ~Blank(contentFiles[i].data.shortUri)
    /\ \/ Blank(contentFiles[i].data.type)
       \/ contentFiles[i].data.type \in {Str("page"), Str("post"), Str("section")}

NameOf(v) == IF v.kind = "string" THEN v.s ELSE ToString(v.n)

ShortUriOf(i) == NameOf(contentFiles[i].data.shortUri)

ParentOf(i) ==
    IF contentFiles[i].data.parent \in {Undefined, Null, Str("")} THEN "root"
    ELSE NameOf(contentFiles[i].data.parent)

TitleOf(i) ==
    IF contentFiles[i].data.title.kind = "string" /\ contentFiles[i].data.title.s # ""
    THEN contentFiles[i].data.title.s
    ELSE ShortUriOf(i)

OrderOf(i) ==
    IF contentFiles[i].data.order.kind = "number"
    THEN [nan |-> FALSE, n |-> contentFiles[i].data.order.n,
          half |-> contentFiles[i].data.order.half]
    ELSE [nan |-> FALSE, n |-> 999, half |-> FALSE]

LabelsOf(i) ==
    {contentFiles[i].data.labels.items[j] :
        j \in 1..Len(contentFiles[i].data.labels.items)} \ {<<>>}

\* The URL and the output file of the i-th content file
ExpectedUrls ==
    << <<"/">>, <<"/", "about">>, <<"/", "blog", "/", "post">>, <<"/", "blog">> >>

ExpectedOutputs ==
    << <<"index", ".", "html">>, <<"about", "/", "index", ".", "html">>,
       <<"blog", "/", "post", "/", "index", ".", "html">>,
       <<"blog", "/", "index", ".", "html">> >>

Collected == buildPc \in {"files", "labels", "done", "failed"}

RootPages == {i \in Docs : Parses(i) /\ ParentOf(i) = "root"}

DuplicateShortUri ==
    \E i, j \in Docs :
        i # j /\ ~Blank(contentFiles[i].data.shortUri)
              /\ ~Blank(contentFiles[j].data.shortUri)
              /\ ShortUriOf(i) = ShortUriOf(j)

UnresolvedParent ==
    \E i \in Docs :
        /\ ParentOf(i) # "root"
        /\ \A j \in Docs : Blank(contentFiles[j].data.shortUri) \/ ShortUriOf(j) # ParentOf(i)

\* C13: a build whose documents hold a duplicate Short-URI or an unresolved
\* Parent aborts with a validation error instead of completing and writing
\* the site.
C13_ValidationAborts ==
    (DuplicateShortUri \/ UnresolvedParent) => buildPc # "done"

Unparsable == {i \in Docs : ~Parses(i)}

\* The children map holds no entry for the document at a URL
NotInChildrenMap(url) ==
    \A k \in 1..Len(childrenMap) :
        \A c \in 1..Len(childrenMap[k].value) : childrenMap[k].value[c].url # url

C15_Aborted ==
    buildPc = "failed" =>
        /\ buildError.thrown /\ buildError.file = fileIdx
        /\ buildError.at \in ThrowingCalls
        /\ FilesAt(PageIndexPath) = {}
        /\ \A f \in dist : Head(f.path) # "label"
        /\ \A j \in 1..(fileIdx - 1) : FilesAt(ExpectedOutputs[j]) # {}
        /\ \A f \in dist : \E j \in 1..(fileIdx - 1) : f.path = ExpectedOutputs[j]

\* C15: a failing document aborts the whole build: if reading, compiling or
\* writing a document throws in the per-document loop, build rejects with
\* that error, no later document is rendered or written, neither
\* page-index.json nor a label index page is written, and the files written
\* for earlier documents stay.
C15_FailingDocumentAborts ==
    [](C15_Aborted) /\ [][buildPc # "failed"]_vars

\* The third document fails to be written after two were
C15_Witness ==
    /\ buildPc = "failed"
    /\ buildError = [thrown |-> TRUE, file |-> 3, at |-> "writeFileSync"]
    /\ Cardinality(dist) = 2

\* What the build has written
PageIndexWritten == FilesAt(PageIndexPath) # {}

LabelPageWritten == \E f \in dist : Head(f.path) = "label"

DocumentWritten == \E f \in dist : \E i \in Docs : f.path = ExpectedOutputs[i]

AllDocumentsWritten == \A i \in Docs : FilesAt(ExpectedOutputs[i]) # {}

\* C16: navigation, the children map and the site-wide label set are computed
\* from every content file before the first document is rendered or written
\* and the per-document loop only reads them; page-index.json is written
\* after the last document page and the label index pages after it.
C16_CollectThenRender ==
    /\ [](/\ DocumentWritten => Collected
          /\ Collected =>
                /\ navigation = generateNavigation(contentFiles)
                /\ childrenMap = collectChildrenMap(contentFiles)
                /\ siteLabels = collectSiteLabels(contentFiles)
          /\ PageIndexWritten => AllDocumentsWritten /\ fileIdx > Len(contentFiles)
          /\ LabelPageWritten => PageIndexWritten)
    /\ [][(\/ navigation' # navigation
           \/ childrenMap' # childrenMap
           \/ siteLabels' # siteLabels) => (buildPc = "start" /\ dist = {})]_vars

\* Between the second and the third document: everything collected, no
\* page index yet
C16_Witness ==
    /\ buildPc = "files" /\ fileIdx = 3 /\ Len(contentFiles) = 3
    /\ Cardinality(dist) = 2
    /\ Len(navigation) = 2 /\ Len(childrenMap) = 2 /\ siteLabels # <<>>
    /\ ~PageIndexWritten

----------------------------------------------------------------------------
(* C17: the :::children directive of a page                                *)

DescriptionOf(i) ==
    IF contentFiles[i].data.description.kind = "string"
    THEN contentFiles[i].data.description.s ELSE ""

\* The parsed pages whose parent is the Short-URI of page i
ChildPages(i) == {j \in Docs : Parses(j) /\ ParentOf(j) = ShortUriOf(i)}

\* The document a listing entry stands for
DocAt(url) == CHOOSE j \in Docs : ExpectedUrls[j] = url

\* The listing put where the directive of page i was: one entry for each of
\* its children and no other, newest first for date-desc, by ascending order
\* for any other sort mode
ListsChildren(i, body) ==
    /\ body.listed /\ body.directive = "none"
    /\ Len(body.items) = Cardinality(ChildPages(i))
    /\ \A j \in ChildPages(i) :
          \E k \in 1..Len(body.items) :
              /\ body.items[k].url = ExpectedUrls[j]
              /\ body.items[k].title = TitleOf(j)
              /\ body.items[k].description = DescriptionOf(j)
    /\ \A k, m \in 1..Len(body.items) :
          k < m =>
              IF contentFiles[i].body.directive = "date-desc"
              THEN DateKey(body.items[k].date) >= DateKey(body.items[m].date)
              ELSE ~NumberLess(OrderOf(DocAt(body.items[m].url)),
                               OrderOf(DocAt(body.items[k].url)))

\* C17: for a page with Short-URI s whose body holds a children directive,
\* build puts in its place a listing of exactly the pages whose parent is s
\* (title, link, description), newest date first for sort=date-desc and by
\* ascending order for an unknown or absent sort mode; a page without
\* children gets an empty listing, and the directive never reaches the output.
C17_ChildrenListed ==
    \A i \in Docs :
        (/\ ~Blank(contentFiles[i].data.shortUri)
         /\ contentFiles[i].body.directive # "none") =>
            \A f \in FilesAt(ExpectedOutputs[i]) :
                ListsChildren(i, f.data.page.main.body)

\* The same for the pages whose Short-URI is a string in the header
C17_StringShortUris ==
    \A i \in Docs :
        (/\ contentFiles[i].data.shortUri.kind = "string"
         /\ ~Blank(contentFiles[i].data.shortUri)
         /\ contentFiles[i].body.directive # "none") =>
            \A f \in FilesAt(ExpectedOutputs[i]) :
                ListsChildren(i, f.data.page.main.body)

----------------------------------------------------------------------------
(* C21                                                                     *)

\* slug-k, as the claim writes it
Numbered(slug, k) == slug \o <<"-">> \o DecimalDigits(k)

\* The smallest k >= 2 whose slug-k is free, for a set that holds the slug
SmallestFree(slug, taken) ==
    CHOOSE k \in 2..(Cardinality(taken) + 2) :
        /\ Numbered(slug, k) \notin taken
        /\ \A j \in 2..(k - 1) : Numbered(slug, j) \in taken

ExpectedShortUri ==
    LET slug == StripEdgeHyphens(ReplaceNonAlnumRuns(trim(toLowerCase(uriTitle)), FALSE))
    IN  IF slug \notin uriExisting.uris THEN slug
        ELSE Numbered(slug, SmallestFree(slug, uriExisting.uris))

\* C21: generateShortUri returns the title's slug when the slug is free and
\* otherwise slug-k for the smallest k >= 2 that is free; the result is never
\* one of the existing Short-URIs; and the call returns for every finite set.
C21_SmallestFreeSuffix ==
    /\ [](uriPc = "done" =>
             /\ uriResult = ExpectedShortUri
             /\ uriResult \notin uriExisting.uris)
    /\ <>(uriPc = "done")

\* The slug and slug-2 are taken and the call returned slug-3
C21_Witness ==
    /\ uriPc = "done"
    /\ uriBase \in uriExisting.uris
    /\ Numbered(uriBase, 2) \in uriExisting.uris
    /\ uriResult = Numbered(uriBase, 3)

----------------------------------------------------------------------------
(* C22                                                                     *)

\* The position of the first part equal to x at or after i (0 if none)
RECURSIVE Find(_, _, _)
Find(s, x, i) ==
    IF i > Len(s) THEN 0 ELSE IF s[i] = x THEN i ELSE Find(s, x, i + 1)

\* The text between the first <open> at or after i and the next <close>
Between(s, open, close, i) ==
    LET a == Find(s, open, i)
        b == Find(s, close, a + 1)
    IN  IF a = 0 \/ b = 0 THEN <<"none">> ELSE SubSeq(s, a + 1, b - 1)

\* The <url> elements of a sitemap, each read back as its <loc> text and its
\* <lastmod> text ("none" where the element has no <lastmod>)
RECURSIVE UrlElements(_, _)
UrlElements(xml, i) ==
    LET a == Find(xml, "<url>", i)
        b == Find(xml, "</url>", a + 1)
        inner == SubSeq(xml, a + 1, b - 1)
    IN  IF a = 0 \/ b = 0 THEN <<>>
        ELSE <<[loc |-> Between(inner, "<loc>", "</loc>", 1),
                lastmod |-> Between(inner, "<lastmod>", "</lastmod>", 1)]>>
                 \o UrlElements(xml, b + 1)

\* siteUrl with no slash at its end
RECURSIVE WithoutTrailingSlashes(_)
WithoutTrailingSlashes(s) ==
    IF s = <<>> \/ s[Len(s)] # "/" THEN s
    ELSE WithoutTrailingSlashes(SubSeq(s, 1, Len(s) - 1))

IsLabelListing(url) ==
    LET prefix == seoBasePath \o <<"/", "label", "/">>
    IN  Len(url) >= Len(prefix) /\ SubSeq(url, 1, Len(prefix)) = prefix

\* What the claim has the sitemap hold, entry for entry
ExpectedUrlElements ==
    LET pages == SelectSeq(seoPages, LAMBDA p : ~IsLabelListing(p.url))
    IN  [i \in 1..Len(pages) |->
            [loc |-> WithoutTrailingSlashes(seoSiteUrl) \o pages[i].url,
             lastmod |-> IF pages[i].date = <<"null">> THEN <<"none">>
                         ELSE pages[i].date]]

\* C22: generateSitemap emits exactly one <url> element per page that is no
\* label-listing page (url starting with basePath + '/label/'), in order,
\* with <loc> the siteUrl without trailing slashes followed by the page's
\* url, and with a <lastmod> exactly when the page has a date.
C22_OneUrlPerPage ==
    seoPc = "done" => UrlElements(seoXml, 1) = ExpectedUrlElements

\* A sitemap of a dated page and a label-listing page, for a siteUrl that
\* ends in a slash
C22_Witness ==
    /\ seoPc = "done"
    /\ seoSiteUrl # WithoutTrailingSlashes(seoSiteUrl)
    /\ \E i \in 1..Len(seoPages) : IsLabelListing(seoPages[i].url)
    /\ \E i \in 1..Len(seoPages) :
           ~IsLabelListing(seoPages[i].url) /\ seoPages[i].date # <<"null">>
    /\ Len(UrlElements(seoXml, 1)) = 1

----------------------------------------------------------------------------
(* C23: the template a page is rendered with                               *)

\* The registry a render call saw holds a template named default, and no
\* template of it has an empty body
DefaultRegistered(reg) ==
    /\ \E i \in 1..Len(reg) : reg[i].key = "default"
    /\ \A i \in 1..Len(reg) : reg[i].value # <<>>

\* The body registered under a name, as the register calls left it
BodyOf(reg, name) == reg[CHOOSE i \in 1..Len(reg) : reg[i].key = name].value

\* The template the claim has a page rendered with: the one it names when
\* that one exists, default otherwise
TemplateUsed(reg, name) ==
    IF \E i \in 1..Len(reg) : reg[i].key = name THEN name ELSE "default"

\* C23: a page that names a template that does not exist is rendered with
\* the template named default instead of failing (and a page that names no
\* template is rendered with default).
C23_FallsBackToDefault ==
    (rendered.kind # "idle" /\ DefaultRegistered(rendered.at)) =>
        /\ rendered.kind = "ok"
        /\ rendered.html =
               processTemplate(BodyOf(rendered.at,
                                      TemplateUsed(rendered.at, rendered.name)),
                               regCtx)

----------------------------------------------------------------------------
(* C24                                                                     *)

\* The URL path of a page, from its file: '.md' dropped, separators made
\* slashes, an index file named by its directory, '/' for the top index
PageUrlPath(file) ==
    LET noMd == SubSeq(file, 1, Len(file) - 2)
        sl == [i \in 1..Len(noMd) |-> IF noMd[i] = "\\" THEN "/" ELSE noMd[i]]
    IN  IF sl = <<"index">> THEN <<"/">>
        ELSE IF Len(sl) >= 2 /\ SubSeq(sl, Len(sl) - 1, Len(sl)) = <<"/", "index">>
             THEN <<"/">> \o SubSeq(sl, 1, Len(sl) - 2)
        ELSE <<"/">> \o sl

\* url lies beneath href by whole path segments
Beneath(url, href) ==
    /\ Len(url) > Len(href) + 1
    /\ SubSeq(url, 1, Len(href) + 1) = href \o <<"/">>

\* C24: on a page, a navigation item is active only when the page's URL path
\* equals the item's href or lies beneath it by whole path segments, and the
\* item for '/' only on index.md; a root page always activates its own item.
C24_ActiveOnOwnBranchOnly ==
    navPc = "done" =>
        /\ navActive =>
              IF navHref = <<"/">> THEN navFile = <<"index", ".", "md">>
              ELSE \/ PageUrlPath(navFile) = navHref
                   \/ Beneath(PageUrlPath(navFile), navHref)
        /\ navItemFile = navFile => navActive

----------------------------------------------------------------------------
(* C25: requests for page-index.json during one page load                  *)

\* C25: for any interleaving of label clicks and fetch completions, at most
\* one request for page-index.json is issued per page load, and after a
\* successful fetch no click issues another request.
C25_OneRequestPerLoad ==
    /\ [](cliRequests <= 1)
    /\ [][pageIndexCache.cached => cliRequests' = cliRequests]_vars

----------------------------------------------------------------------------
(* C26: where a label click leads                                          *)

\* The entries of an index that carry a label
CarryingEntries(index, label) ==
    {i \in 1..Len(index) : \E j \in 1..Len(index[i].labels) : index[i].labels[j] = label}

\* The file a static server answers a URL path with
FileOfUrl(url) ==
    LET rel == SubSeq(url, 2, Len(url))
    IN  IF rel = <<>> \/ rel[Len(rel)] = "/" THEN rel \o <<"index", ".", "html">>
        ELSE rel \o <<"/", "index", ".", "html">>

\* The label index pages the build writes from a page index
LabelPagesOf(index) == generateLabelIndexPages({}, index, <<>>, <<>>)

\* C26: handleLabelClick(label) navigates to the single matching page's url
\* when exactly one entry of the page index carries the label, to
\* basePath/label/<slug(label)> when more than one does, and nowhere when
\* none does; every label URL navigated to names a label index page that the
\* build generates from the same page index.
C26_LabelClickTargets ==
    cliLast.ran =>
        LET carrying == CarryingEntries(cliLast.index, cliLast.label)
        IN  /\ Cardinality(carrying) = 1 =>
                  \A i \in carrying : cliLast.href = cliLast.index[i].url
            /\ Cardinality(carrying) > 1 =>
                  /\ cliLast.href = <<"/", "label", "/">> \o generateLabelSlug(cliLast.label)
                  /\ \E f \in LabelPagesOf(cliLast.index) :
                         /\ f.path = FileOfUrl(cliLast.href)
                         /\ f.data.page.main.kind = "label-index"
            /\ Cardinality(carrying) = 0 => cliLast.href = <<>>
            /\ cliLocation = <<"here">> <=> cliLast.href = <<>>

\* A click on the label B, which two pages carry, led to /label/b after the
\* one fetch of the page load
C26_Witness ==
    /\ cliLast.ran /\ cliLast.label = <<"B">>
    /\ Cardinality(CarryingEntries(cliServed, <<"B">>)) = 2
    /\ pageIndexCache.cached /\ cliRequests = 1
    /\ cliLocation = <<"/", "label", "/", "b">>

----------------------------------------------------------------------------
(* C27: the URL of a page and the file written for it                      *)

\* A path with every run of slashes made one slash, as path.join and a file
\* server read it
RECURSIVE CollapseSlashes(_)
CollapseSlashes(p) ==
    IF Len(p) < 2 THEN p
    ELSE IF p[1] = "/" /\ p[2] = "/" THEN CollapseSlashes(Tail(p))
    ELSE <<p[1]>> \o CollapseSlashes(Tail(p))

\* C27: for every content file, the URL getUrlPath gives names the directory
\* of the file getOutputPath gives: '/' corresponds to index.html and '/<p>'
\* to <p>/index.html, so a link to the URL reaches the file the build writes.
C27_UrlNamesOutputFile ==
    (outPath # <<>> /\ pageUrl # <<>>) =>
        CollapseSlashes(JoinOutputDir(outPath))
            = CollapseSlashes(JoinOutputDir(FileOfUrl(pageUrl)))

----------------------------------------------------------------------------
(* C28: one output file per content file                                   *)

\* The page written for a content file is in dist: a rendered document with
\* the file's title
PageOfFileIsThere(file) ==
    \E f \in dist :
        /\ f.data.kind = "html"
        /\ f.data.page.main.kind = "markdown"
        /\ f.data.page.title = <<file.data.title.s>>

\* C28: within one build no two distinct content files are mapped to the
\* same output path: once the per-file loop has ended, the page of every
\* content file is in the output, none overwritten by the page of another.
C28_NoPageOverwritten ==
    buildPc \in {"labels", "done"} =>
        \A i \in 1..Len(contentFiles) : PageOfFileIsThere(contentFiles[i])

----------------------------------------------------------------------------
(* C29: one listing file per shared label                                  *)

\* The labels of the page index that two or more pages carry
SharedLabels ==
    {label \in IndexLabels : Cardinality(Carriers(label)) >= MinLabelPages}

\* The listing page of a label is in dist, under the label's slug
ListingOfLabelIsThere(label) ==
    \E f \in dist :
        /\ f.path = <<"label", "/">> \o generateLabelSlug(label)
                        \o <<"/", "index", ".", "html">>
        /\ f.data.kind = "html"
        /\ f.data.page.main.kind = "label-index"
        /\ f.data.page.main.label = label

\* C29: after a build, distinct labels that two or more pages carry have
\* distinct listing files label/<slug>/index.html with a non-empty slug, and
\* the listing page of each of them is the one in its file: none has been
\* overwritten by the page of another label with the same slug.
C29_OneListingPerLabel ==
    buildPc = "done" =>
        /\ \A label \in SharedLabels :
              generateLabelSlug(label) # <<>> /\ ListingOfLabelIsThere(label)
        /\ \A l1, l2 \in SharedLabels :
              l1 # l2 => generateLabelSlug(l1) # generateLabelSlug(l2)

----------------------------------------------------------------------------
(* C30: template syntax inside a resolved value                            *)

\* The tag names a template names, in placeholders and in conditions
NamedTags(segs) ==
    {segs[i].name : i \in {j \in 1..Len(segs) : segs[j].kind # "text"}}
        \cup {segs[i].body.name :
                 i \in {j \in 1..Len(segs) :
                           segs[j].kind = "if" /\ segs[j].body.kind = "tag"}}

\* Two contexts in which every tag of the set has the same value
SameValues(tagNames, ctx1, ctx2) ==
    \A n \in tagNames : resolveTag(<<n>>, ctx1) = resolveTag(<<n>>, ctx2)

\* A value that holds a placeholder or the opening of a conditional
HoldsTemplateSyntax(value) ==
    \E i \in 1..Len(value) : value[i] = OPEN

\* C30: processTemplate scans the template text only.  A placeholder of the
\* template is replaced by its value as it is, template syntax inside the
\* value included, and the output is the same for any two contexts that give
\* the tags the template names the same values.
C30_ValuesAreNotScanned ==
    tplPc = "done" =>
        /\ \A i \in 1..Len(tplSegs) :
              tplSegs[i].kind = "tag" =>
                  Contains(tplText, resolveTag(<<tplSegs[i].name>>, tplCtx))
        /\ Len(tplSegs) = 1 /\ tplSegs[1].kind = "tag" =>
              tplText = resolveTag(<<tplSegs[1].name>>, tplCtx)
        /\ \A ctx \in Contexts :
              SameValues(NamedTags(tplSegs), ctx, tplCtx) =>
                  processTemplate(TemplateText(tplSegs), ctx) = tplText

\* A template of {{content}} in a kept block and {{title}}, a content that
\* reads {{title}}: the content is in the output as written, the title once
C30_Witness ==
    /\ tplPc = "done"
    /\ tplSegs = <<IfSeg("content", TagSeg("content")), TagSeg("title")>>
    /\ tplCtx = Context(<<"T">>, <<OPEN, "title", CLOSE>>, <<>>)
    /\ HoldsTemplateSyntax(tplCtx.content)
    /\ tplText = <<OPEN, "title", CLOSE, "T">>

=============================================================================
